---- MODULE Spec2Model ----
(***************************************************************************)
(* A model of textprompts: the placeholder scanner (placeholder_utils.py), *)
(* the validated template PromptString (prompt_string.py), the process-    *)
(* wide metadata mode (config.py) and the file parser (_parser.py,         *)
(* loaders.py, models.py).                                                 *)
(*                                                                         *)
(* Text is a sequence of one-character strings.  A run of letters that no  *)
(* function of the program looks into (a key such as "title", a word of a  *)
(* body) is written as one element of the sequence.                        *)
(***************************************************************************)
EXTENDS Integers, Sequences, FiniteSets, TLC

VARIABLES
    value,          \* PromptString: the text of the template (str.__new__)
    placeholders,   \* PromptString.placeholders, set at construction
    args,           \* the positional arguments of the last format call
    kwargs,         \* the keyword arguments of the last format call
    skip_validation,\* the skip_validation flag of the last format call
    result,         \* what the last call returned or raised
    files,          \* the file system: path -> what is stored there
    _METADATA_MODE, \* config._METADATA_MODE
    _WARN_ON_IGNORED_META, \* config._WARN_ON_IGNORED_META
    call,           \* the last call of the configuration or loader API
    stored,         \* history: the argument of the last successful set_metadata
    pending,        \* load_prompts: what the loops over paths have yet to visit
    collected,      \* load_prompts: the list collected
    file_count      \* load_prompts: the counter file_count

vars ==
    <<value, placeholders, args, kwargs, skip_validation, result,
      files, _METADATA_MODE, _WARN_ON_IGNORED_META, call, stored,
      pending, collected, file_count>>

\* the variables of the loader and its configuration
loader_vars == <<files, _METADATA_MODE, _WARN_ON_IGNORED_META, call, stored>>

\* the variables of a PromptString and its last format call
prompt_vars == <<value, placeholders, args, kwargs, skip_validation>>

\* the local variables of a load_prompts call
batch_vars == <<pending, collected, file_count>>

----------------------------------------------------------------------------
(* Bounds of the model *)

\* longest text handed to extract_placeholders in SpecScan
MaxScanLen == 5

\* SpecFormat: a template is any text of at most MaxLen characters, or at
\* most MaxPieces pieces (placeholders, doubled and single braces, text)
MaxLen == 3
MaxPieces == 2

----------------------------------------------------------------------------
(* Text helpers: Python's str operations on sequences of characters *)

\* the two markers extract_placeholders substitutes for doubled braces,
\* each written as one element: they start with \x00, which no input holds
ESCAPED_OPEN == "\\x00ESCAPED_OPEN\\x00"
ESCAPED_CLOSE == "\\x00ESCAPED_CLOSE\\x00"

\* code point order of the characters used (ord); a marker sorts by its
\* first character \x00 and then by "ESCAPED_C" < "ESCAPED_O"; a field name
\* written as one element sorts by its first letter (the field names start
\* with different letters)
Ord(c) ==
    CASE c = ESCAPED_CLOSE -> 0
      [] c = ESCAPED_OPEN -> 1
      [] c = "\n" -> 10
      [] c = " " -> 32
      [] c = "-" -> 45
      [] c = "0" -> 48
      [] c = ":" -> 58
      [] c = "a" -> 97
      [] c = "b" -> 98
      [] c = "description" -> 100
      [] c = "title" -> 116
      [] c = "v" -> 118
      [] c = "version" -> 118
      [] c = "w" -> 119
      [] c = "{" -> 123
      [] c = "}" -> 125

\* s[i:] of Python, for a 1-based index i
From(s, i) == SubSeq(s, i, Len(s))

\* s.startswith(p)
StartsWith(s, p) == Len(s) >= Len(p) /\ SubSeq(s, 1, Len(p)) = p

\* s.find(p, start): the least 1-based index >= start where p occurs, 0 if none
Find(s, p, start) ==
    LET hits == {i \in start..(Len(s) - Len(p) + 1) : SubSeq(s, i, i + Len(p) - 1) = p}
    IN  IF hits = {} THEN 0 ELSE CHOOSE i \in hits : \A j \in hits : i <= j

\* p in s
Contains(s, p) == Find(s, p, 1) # 0

\* s.replace(old, new) for a non-empty old: leftmost, non-overlapping
RECURSIVE Replace(_, _, _)
Replace(s, old, new) ==
    IF Len(s) < Len(old) THEN s
    ELSE IF SubSeq(s, 1, Len(old)) = old
         THEN new \o Replace(From(s, Len(old) + 1), old, new)
         ELSE <<Head(s)>> \o Replace(Tail(s), old, new)

\* Python's order on str: lexicographic by code point
RECURSIVE StrLess(_, _)
StrLess(s, t) ==
    IF t = <<>> THEN FALSE
    ELSE IF s = <<>> THEN TRUE
    ELSE IF Ord(Head(s)) # Ord(Head(t)) THEN Ord(Head(s)) < Ord(Head(t))
    ELSE StrLess(Tail(s), Tail(t))

\* sorted(S) for a set of str
RECURSIVE Sorted(_)
Sorted(S) ==
    IF S = {} THEN <<>>
    ELSE LET m == CHOOSE x \in S : \A y \in S \ {x} : StrLess(x, y)
         IN  <<m>> \o Sorted(S \ {m})

\* every text of at most n characters of A
Texts(A, n) == UNION {[1..k -> A] : k \in 0..n}

----------------------------------------------------------------------------
(* placeholder_utils.extract_placeholders *)

\* the least index j >= i with s[j] in cs, 0 if none
FirstOf(s, i, cs) ==
    LET hits == {j \in i..Len(s) : s[j] \in cs}
    IN  IF hits = {} THEN 0 ELSE CHOOSE j \in hits : \A k \in hits : j <= k

\* one attempt of the pattern \{([^}:]*)(?::[^}]*)?\} at index i: the index
\* of the closing brace and the captured name, or end = 0 for no match
MatchAt(s, i) ==
    IF s[i] # "{" THEN [end |-> 0, name |-> <<>>]
    ELSE LET j == FirstOf(s, i + 1, {"}", ":"})
         IN  IF j = 0 THEN [end |-> 0, name |-> <<>>]
             ELSE IF s[j] = "}" THEN [end |-> j, name |-> SubSeq(s, i + 1, j - 1)]
             ELSE LET k == FirstOf(s, j + 1, {"}"})
                  IN  IF k = 0 THEN [end |-> 0, name |-> <<>>]
                      ELSE [end |-> k, name |-> SubSeq(s, i + 1, j - 1)]

\* set(re.findall(pattern, s)) scanning from index i: matches are taken
\* leftmost first and do not overlap
RECURSIVE FindAll(_, _)
FindAll(s, i) ==
    IF i > Len(s) THEN {}
    ELSE LET m == MatchAt(s, i)
         IN  IF m.end = 0 THEN FindAll(s, i + 1)
             ELSE {m.name} \cup FindAll(s, m.end + 1)

\* the text with "{{" and then "}}" replaced by the markers
temp_text(text) ==
    Replace(Replace(text, <<"{", "{">>, <<ESCAPED_OPEN>>), <<"}", "}">>, <<ESCAPED_CLOSE>>)

extract_placeholders(text) == FindAll(temp_text(text), 1)

----------------------------------------------------------------------------
(* Argument values: str and int, and Python's str() of them *)

StrVal(s) == [t |-> "str", s |-> s]
IntVal(n) == [t |-> "int", n |-> n]

Digits == <<"0", "1", "2", "3", "4", "5", "6", "7", "8", "9">>

\* str(n) for an int n >= 0
RECURSIVE IntToStr(_)
IntToStr(n) ==
    IF n < 10 THEN <<Digits[n + 1]>>
    ELSE IntToStr(n \div 10) \o <<Digits[(n % 10) + 1]>>

\* str(v)
Str(v) == IF v.t = "str" THEN v.s ELSE IntToStr(v.n)

\* an exception raised instead of a result
Raise(exc, msg) == [kind |-> "raise", exc |-> exc, msg |-> msg, names |-> <<>>]

----------------------------------------------------------------------------
(* placeholder_utils.validate_format_args *)

\* faulty variant: the positional arguments are not added
with_positional_dropped(a, kw) == kw

\* kwargs.copy() with every positional argument added under str(index)
with_positional(a, kw) ==
    LET idx == {IntToStr(i - 1) : i \in 1..Len(a)}
    IN  [k \in (DOMAIN kw) \cup idx |->
            IF k \in idx THEN a[CHOOSE i \in 1..Len(a) : IntToStr(i - 1) = k]
            ELSE kw[k]]

\* faulty variant: the empty placeholder is not matched by a positional argument
provided_keys_no_empty(phs, a, kw) == DOMAIN with_positional(a, kw)

\* the keys validate_format_args counts as provided
provided_keys(phs, a, kw) ==
    (DOMAIN with_positional(a, kw))
        \cup (IF <<>> \in phs /\ Len(a) > 0 THEN {<<>>} ELSE {})

missing_keys(phs, a, kw) == phs \ provided_keys(phs, a, kw)

MissingError(names) ==
    [kind |-> "raise", exc |-> "ValueError", msg |-> "Missing format variables",
     names |-> names]

\* returns None ("ok") or raises ValueError listing sorted(missing_keys)
validate_format_args(phs, a, kw, skip) ==
    IF skip THEN [kind |-> "ok"]
    ELSE IF missing_keys(phs, a, kw) # {}
         THEN MissingError(Sorted(missing_keys(phs, a, kw)))
         ELSE [kind |-> "ok"]

----------------------------------------------------------------------------
(* str.format of Python, which PromptString.format calls after validation. *)
(* The characters '[', '.', '!' (item, attribute, conversion) are not in   *)
(* the alphabet of the model.                                              *)

\* get_integer: the index a field name of digits denotes, -1 otherwise
RECURSIVE DigitsValue(_, _)
DigitsValue(name, acc) ==
    IF name = <<>> THEN acc
    ELSE LET d == {i \in 1..10 : Digits[i] = Head(name)}
         IN  IF d = {} THEN -1
             ELSE DigitsValue(Tail(name), acc * 10 + (CHOOSE i \in d : TRUE) - 1)

get_integer(name) == IF name = <<>> THEN -1 ELSE DigitsValue(name, 0)

\* the index of the brace closing a format spec that starts at i, 0 if none
RECURSIVE SpecEnd(_, _, _)
SpecEnd(s, i, count) ==
    IF i > Len(s) THEN 0
    ELSE IF s[i] = "{" THEN SpecEnd(s, i + 1, count + 1)
    ELSE IF s[i] = "}" THEN (IF count = 1 THEN i ELSE SpecEnd(s, i + 1, count - 1))
    ELSE SpecEnd(s, i + 1, count)

\* parse_field: the replacement field whose first character is s[p]
parse_field(s, p) ==
    LET j == FirstOf(s, p, {"{", "}", ":"})
    IN  IF j = 0 THEN Raise("ValueError", "expected '}' before end of string")
        ELSE IF s[j] = "{" THEN Raise("ValueError", "unexpected '{' in field name")
        ELSE IF s[j] = "}"
             THEN [kind |-> "ok", field_name |-> SubSeq(s, p, j - 1),
                   format_spec |-> <<>>, next |-> j + 1]
        ELSE LET k == SpecEnd(s, j + 1, 1)
             IN  IF k = 0 THEN Raise("ValueError", "unmatched '{' in format spec")
                 ELSE [kind |-> "ok", field_name |-> SubSeq(s, p, j - 1),
                       format_spec |-> SubSeq(s, j + 1, k - 1), next |-> k + 1]

AllZero(spec) == \A i \in 1..Len(spec) : spec[i] = "0"

\* format(obj, spec) for the characters of the model: a str takes only the
\* zero flag and a zero width; an int also takes the sign ' ' before them
format_value(obj, spec) ==
    IF spec = <<>> THEN [kind |-> "ok", val |-> Str(obj)]
    ELSE IF obj.t = "str"
         THEN IF AllZero(spec) THEN [kind |-> "ok", val |-> Str(obj)]
              ELSE Raise("ValueError", "invalid format specifier")
    ELSE IF AllZero(spec) THEN [kind |-> "ok", val |-> Str(obj)]
    ELSE IF Head(spec) = " " /\ AllZero(Tail(spec))
         THEN [kind |-> "ok", val |-> <<" ">> \o Str(obj)]
    ELSE Raise("ValueError", "invalid format specifier")

\* the automatic/manual numbering state before any field
ANS_INIT == [state |-> "INIT", field_number |-> 0]

\* get_field_object: the numbering state after this field and the object
\* the field name denotes
get_field_object(name, an, a, kw) ==
    LET empty == name = <<>>
        idx == get_integer(name)
        numeric == empty \/ idx # -1
        st == IF an.state = "INIT" /\ numeric
              THEN (IF empty THEN "AUTO" ELSE "MANUAL") ELSE an.state
        index == IF empty THEN an.field_number ELSE idx
        an2 == [state |-> st,
                field_number |-> IF empty THEN an.field_number + 1 ELSE an.field_number]
    IN  IF numeric /\ st = "MANUAL" /\ empty
        THEN Raise("ValueError", "cannot switch from manual field specification to automatic field numbering")
        ELSE IF numeric /\ st = "AUTO" /\ ~empty
        THEN Raise("ValueError", "cannot switch from automatic field numbering to manual field specification")
        ELSE IF ~numeric
        THEN IF name \in DOMAIN kw THEN [kind |-> "ok", obj |-> kw[name], an |-> an2]
             ELSE Raise("KeyError", "key")
        ELSE IF index < Len(a) THEN [kind |-> "ok", obj |-> a[index + 1], an |-> an2]
             ELSE Raise("IndexError", "Replacement index out of range for positional args tuple")

\* build_string / do_markup: literal text, doubled braces and replacement
\* fields from index i on; a format spec holding braces is expanded by one
\* nested build_string, and recursion_depth starts at 2
RECURSIVE do_markup(_, _, _, _, _, _, _)
do_markup(s, i, an, depth, out, a, kw) ==
    IF depth <= 0 THEN Raise("ValueError", "Max string recursion exceeded")
    ELSE IF i > Len(s) THEN [kind |-> "ok", val |-> out, an |-> an]
    ELSE IF s[i] \notin {"{", "}"} THEN do_markup(s, i + 1, an, depth, Append(out, s[i]), a, kw)
    ELSE IF s[i] = "}" /\ (i = Len(s) \/ s[i + 1] # "}")
         THEN Raise("ValueError", "Single '}' encountered in format string")
    ELSE IF i = Len(s)
         THEN Raise("ValueError", "Single '{' encountered in format string")
    ELSE IF s[i + 1] = s[i] THEN do_markup(s, i + 2, an, depth, Append(out, s[i]), a, kw)
    ELSE LET f == parse_field(s, i + 1)
         IN  IF f.kind = "raise" THEN f
             ELSE LET o == get_field_object(f.field_name, an, a, kw)
                  IN  IF o.kind = "raise" THEN o
                      ELSE LET e == IF Contains(f.format_spec, <<"{">>)
                                    THEN do_markup(f.format_spec, 1, o.an, depth - 1, <<>>, a, kw)
                                    ELSE [kind |-> "ok", val |-> f.format_spec, an |-> o.an]
                           IN  IF e.kind = "raise" THEN e
                               ELSE LET r == format_value(o.obj, e.val)
                                    IN  IF r.kind = "raise" THEN r
                                        ELSE do_markup(s, f.next, e.an, depth, out \o r.val, a, kw)

\* str.format(source, *args, **kwargs)
str_format(source, a, kw) ==
    LET r == do_markup(source, 1, ANS_INIT, 2, <<>>, a, kw)
    IN  IF r.kind = "raise" THEN r ELSE [kind |-> "ok", val |-> r.val]

----------------------------------------------------------------------------
(* prompt_string.PromptString *)

Whitespace == {" ", "\n"}

\* str.strip()
RECURSIVE lstrip(_)
lstrip(s) == IF s # <<>> /\ Head(s) \in Whitespace THEN lstrip(Tail(s)) ELSE s

RECURSIVE rstrip(_)
rstrip(s) ==
    IF s # <<>> /\ s[Len(s)] \in Whitespace THEN rstrip(SubSeq(s, 1, Len(s) - 1)) ELSE s

strip(s) == rstrip(lstrip(s))

\* the orders in which a for loop may visit a set
RECURSIVE Orders(_)
Orders(S) ==
    IF S = {} THEN {<<>>}
    ELSE UNION {{<<x>> \o o : o \in Orders(S \ {x})} : x \in S}

\* the loop of _partial_format over the placeholders in the order given
RECURSIVE partial_loop(_, _, _)
partial_loop(res, order, all_kwargs) ==
    IF order = <<>> THEN res
    ELSE LET placeholder == Head(order)
             pattern == <<"{">> \o placeholder \o <<"}">>
         IN  IF placeholder \in DOMAIN all_kwargs /\ Contains(res, pattern)
             THEN partial_loop(Replace(res, pattern, Str(all_kwargs[placeholder])),
                               Tail(order), all_kwargs)
             ELSE partial_loop(res, Tail(order), all_kwargs)

\* PromptString._partial_format(*args, source=source, **kwargs)
partial_format(source, phs_order, a, kw) ==
    [kind |-> "ok", val |-> partial_loop(source, phs_order, with_positional(a, kw))]

\* PromptString.format(*args, skip_validation=skip, **kwargs); phs_order is
\* the order in which the set self.placeholders is iterated
format(text, phs, phs_order, a, kw, skip) ==
    LET source == strip(text)
    IN  IF skip THEN partial_format(source, phs_order, a, kw)
        ELSE LET v == validate_format_args(phs, a, kw, FALSE)
             IN  IF v.kind = "raise" THEN v ELSE str_format(source, a, kw)

----------------------------------------------------------------------------
(* config.py: the metadata mode *)

\* the members of the enum MetadataMode
MetadataModes == {"STRICT", "ALLOW", "IGNORE"}

\* the value of each member of MetadataMode
ModeValue(m) ==
    CASE m = "STRICT" -> <<"s", "t", "r", "i", "c", "t">>
      [] m = "ALLOW" -> <<"a", "l", "l", "o", "w">>
      [] m = "IGNORE" -> <<"i", "g", "n", "o", "r", "e">>

NoneVal == [t |-> "None"]
ModeVal(m) == [t |-> "MetadataMode", m |-> m]
BoolVal(b) == [t |-> "bool", b |-> b]
DateVal(d) == [t |-> "date", d |-> d]

\* str.lower, on the letters that the mode strings of the model hold
LowerChar(c) ==
    CASE c = "A" -> "a" [] c = "C" -> "c" [] c = "E" -> "e" [] c = "G" -> "g"
      [] c = "I" -> "i" [] c = "L" -> "l" [] c = "N" -> "n" [] c = "O" -> "o"
      [] c = "R" -> "r" [] c = "S" -> "s" [] c = "T" -> "t" [] c = "W" -> "w"
      [] OTHER -> c

lower(s) == [i \in 1..Len(s) |-> LowerChar(s[i])]

\* MetadataMode(v): the member whose value is v; ValueError when there is none
MetadataMode(v) ==
    IF \E m \in MetadataModes : ModeValue(m) = v
    THEN [kind |-> "ok", val |-> ModeVal(CHOOSE m \in MetadataModes : ModeValue(m) = v)]
    ELSE Raise("ValueError", "is not a valid MetadataMode")

\* faulty variant: the setting is compared as it is written
env_mode_exact(env) ==
    IF env = NoneVal \/ env.s = <<>> THEN "IGNORE"
    ELSE LET r == MetadataMode(env.s)
         IN  IF r.kind = "ok" THEN r.val.m ELSE "IGNORE"

\* the module-level seed of _METADATA_MODE from TEXTPROMPTS_METADATA_MODE
env_mode(env) ==
    IF env = NoneVal \/ env.s = <<>> THEN "IGNORE"
    ELSE LET r == MetadataMode(lower(env.s))
         IN  IF r.kind = "ok" THEN r.val.m ELSE "IGNORE"

\* faulty variant: a string that names no mode selects IGNORE, as the
\* setting of the environment does
set_metadata_fallback(mode, current) ==
    LET conv == IF mode.t = "str" THEN MetadataMode(lower(mode.s))
                ELSE [kind |-> "ok", val |-> mode]
    IN  IF conv.kind = "raise"
        THEN [mode |-> "IGNORE", res |-> Raise("ValueError", "Invalid metadata mode")]
        ELSE IF conv.val.t # "MetadataMode"
        THEN [mode |-> current,
              res |-> Raise("ValueError", "Mode must be MetadataMode enum or string")]
        ELSE [mode |-> conv.val.m, res |-> [kind |-> "ok", val |-> NoneVal]]

\* set_metadata(mode): the new _METADATA_MODE and what the call returns
set_metadata(mode, current) ==
    LET conv == IF mode.t = "str" THEN MetadataMode(lower(mode.s))
                ELSE [kind |-> "ok", val |-> mode]
    IN  IF conv.kind = "raise"
        THEN [mode |-> current, res |-> Raise("ValueError", "Invalid metadata mode")]
        ELSE IF conv.val.t # "MetadataMode"
        THEN [mode |-> current,
              res |-> Raise("ValueError", "Mode must be MetadataMode enum or string")]
        ELSE [mode |-> conv.val.m, res |-> [kind |-> "ok", val |-> NoneVal]]

\* faulty variant: the process-wide mode wins over the override
_resolve_global_first(meta, global) == [kind |-> "ok", val |-> ModeVal(global)]

\* _resolve_metadata_mode(meta): the override when given, else the global
_resolve_metadata_mode(meta, global) ==
    IF meta # NoneVal
    THEN IF meta.t = "str" THEN MetadataMode(lower(meta.s))
         ELSE [kind |-> "ok", val |-> meta]
    ELSE [kind |-> "ok", val |-> ModeVal(global)]

----------------------------------------------------------------------------
(* _parser.py: the front matter *)

DELIM == <<"-", "-", "-">>

\* s.lstrip(cs) and s.rstrip(cs)
RECURSIVE lstrip_chars(_, _)
lstrip_chars(s, cs) ==
    IF s # <<>> /\ Head(s) \in cs THEN lstrip_chars(Tail(s), cs) ELSE s

RECURSIVE rstrip_chars(_, _)
rstrip_chars(s, cs) ==
    IF s # <<>> /\ s[Len(s)] \in cs
    THEN rstrip_chars(SubSeq(s, 1, Len(s) - 1), cs) ELSE s

\* an error of the loader: the exception, the fixed part of its message, the
\* field names the message lists and the mode the message suggests
RaiseLoad(exc, msg, names, hint) ==
    [kind |-> "raise", exc |-> exc, msg |-> msg, names |-> names, hint |-> hint]

\* raise ... from e: the error r with the exception it was raised from
Caused(r, exc) == r @@ [cause |-> exc]

\* faulty variant: white space before the opening delimiter is skipped
_split_lenient(text) ==
    LET t == lstrip(text)
    IN  IF ~StartsWith(t, DELIM)
        THEN [kind |-> "ok", header |-> NoneVal, body |-> text]
        ELSE LET second_delim == Find(t, DELIM, Len(DELIM) + 1)
             IN  IF second_delim = 0
                 THEN RaiseLoad("MalformedHeaderError", "Missing closing delimiter",
                                <<>>, "")
                 ELSE [kind |-> "ok",
                       header |-> StrVal(strip(SubSeq(t, Len(DELIM) + 1,
                                                      second_delim - 1))),
                       body |-> lstrip_chars(From(t, second_delim + Len(DELIM)),
                                             {"\n"})]

\* faulty variant: the search for the closing delimiter starts at the opening one
_split_find_from_start(text) ==
    IF ~StartsWith(text, DELIM)
    THEN [kind |-> "ok", header |-> NoneVal, body |-> text]
    ELSE LET second_delim == Find(text, DELIM, 1)
         IN  IF second_delim = 0
             THEN RaiseLoad("MalformedHeaderError", "Missing closing delimiter",
                            <<>>, "")
             ELSE [kind |-> "ok",
                   header |-> StrVal(strip(SubSeq(text, Len(DELIM) + 1,
                                                  second_delim - 1))),
                   body |-> lstrip_chars(From(text, second_delim + Len(DELIM)),
                                         {"\n"})]

\* faulty variant: all leading white space of the body is removed
_split_body_stripped(text) ==
    IF ~StartsWith(text, DELIM)
    THEN [kind |-> "ok", header |-> NoneVal, body |-> text]
    ELSE LET second_delim == Find(text, DELIM, Len(DELIM) + 1)
         IN  IF second_delim = 0
             THEN RaiseLoad("MalformedHeaderError", "Missing closing delimiter",
                            <<>>, "")
             ELSE [kind |-> "ok",
                   header |-> StrVal(strip(SubSeq(text, Len(DELIM) + 1,
                                                  second_delim - 1))),
                   body |-> lstrip(From(text, second_delim + Len(DELIM)))]

\* _split_front_matter(text): (header, body), header None without front matter
_split_front_matter(text) ==
    IF ~StartsWith(text, DELIM)
    THEN [kind |-> "ok", header |-> NoneVal, body |-> text]
    ELSE LET second_delim == Find(text, DELIM, Len(DELIM) + 1)
         IN  IF second_delim = 0
             THEN RaiseLoad("MalformedHeaderError", "Missing closing delimiter",
                            <<>>, "")
             ELSE [kind |-> "ok",
                   header |-> StrVal(strip(SubSeq(text, Len(DELIM) + 1,
                                                  second_delim - 1))),
                   body |-> lstrip_chars(From(text, second_delim + Len(DELIM)),
                                         {"\n"})]

----------------------------------------------------------------------------
(* tomllib.loads on the headers of the model: lines "key = value" with a     *)
(* bare or quoted key and a basic string, integer, boolean or date value    *)

\* the lines of s
RECURSIVE SplitLines(_)
SplitLines(s) ==
    LET n == FirstOf(s, 1, {"\n"})
    IN  IF n = 0 THEN <<s>>
        ELSE <<SubSeq(s, 1, n - 1)>> \o SplitLines(From(s, n + 1))

\* the characters that end a bare key
KeyStops == {"\n", " ", "=", "\"", "{", "}"}

IntAtoms == {"0", "5"}
DateAtoms == {"2024-01-15"}

IntOf(c) == IF c = "0" THEN 0 ELSE 5

TomlError == [kind |-> "error"]

\* a value: a basic string, an integer, false, or a local date
toml_value(v) ==
    IF v = <<>> THEN TomlError
    ELSE IF v[1] = "\""
    THEN IF FirstOf(v, 2, {"\""}) = Len(v)
         THEN [kind |-> "value", val |-> StrVal(SubSeq(v, 2, Len(v) - 1))]
         ELSE TomlError
    ELSE IF Len(v) # 1 THEN TomlError
    ELSE IF v[1] \in IntAtoms THEN [kind |-> "value", val |-> IntVal(IntOf(v[1]))]
    ELSE IF v[1] = "false" THEN [kind |-> "value", val |-> BoolVal(FALSE)]
    ELSE IF v[1] \in DateAtoms THEN [kind |-> "value", val |-> DateVal(v[1])]
    ELSE TomlError

\* one line: blank, or key = value
toml_line(line) ==
    LET l == rstrip_chars(lstrip_chars(line, {" "}), {" "})
    IN  IF l = <<>> THEN [kind |-> "skip"]
        ELSE LET quoted == l[1] = "\""
                 stop == FirstOf(l, 1, KeyStops)
                 keyEnd == IF quoted THEN FirstOf(l, 2, {"\""})
                           ELSE IF stop = 0 THEN Len(l) ELSE stop - 1
                 key == IF quoted THEN SubSeq(l, 2, keyEnd - 1)
                        ELSE SubSeq(l, 1, keyEnd)
                 rest == lstrip_chars(From(l, keyEnd + 1), {" "})
             IN  IF keyEnd = 0 \/ rest = <<>> \/ rest[1] # "=" THEN TomlError
                 ELSE LET v == toml_value(lstrip_chars(Tail(rest), {" "}))
                      IN  IF v.kind = "error" THEN TomlError
                          ELSE [kind |-> "pair", key |-> key, val |-> v.val]

\* the table of the lines, TOMLDecodeError on a bad line or a repeated key
RECURSIVE toml_lines(_, _)
toml_lines(lines, data) ==
    IF lines = <<>> THEN [kind |-> "ok", data |-> data]
    ELSE LET e == toml_line(Head(lines))
         IN  IF e.kind = "error" THEN TomlError
             ELSE IF e.kind = "skip" THEN toml_lines(Tail(lines), data)
             ELSE IF e.key \in DOMAIN data THEN TomlError
             ELSE toml_lines(Tail(lines), data @@ (e.key :> e.val))

toml_loads(s) == toml_lines(SplitLines(s), <<>>)

----------------------------------------------------------------------------
(* textwrap.dedent *)

\* the number of leading blanks of a line
RECURSIVE Indent(_)
Indent(line) ==
    IF line # <<>> /\ Head(line) = " " THEN 1 + Indent(Tail(line)) ELSE 0

\* lines joined by "\n"
RECURSIVE JoinLines(_)
JoinLines(lines) ==
    IF Len(lines) = 1 THEN lines[1]
    ELSE lines[1] \o <<"\n">> \o JoinLines(Tail(lines))

\* faulty variant: every line loses all its leading blanks
dedent_each_line(text) ==
    LET lines == SplitLines(text)
    IN  JoinLines([i \in 1..Len(lines) |-> lstrip_chars(lines[i], {" "})])

\* lines of blanks only become empty, and the blanks that every other line
\* starts with are removed
dedent(text) ==
    LET lines == SplitLines(text)
        inked == {i \in 1..Len(lines) : Indent(lines[i]) < Len(lines[i])}
        margin == IF inked = {} THEN 0
                  ELSE CHOOSE m \in {Indent(lines[i]) : i \in inked} :
                           \A i \in inked : m <= Indent(lines[i])
    IN  JoinLines([i \in 1..Len(lines) |->
                      IF i \in inked THEN From(lines[i], margin + 1) ELSE <<>>])

----------------------------------------------------------------------------
(* models.py: PromptMeta and Prompt, validated by pydantic *)

MetaFields == {"title", "version", "author", "created", "description"}

\* PromptMeta(): every field None
EmptyMeta == [f \in MetaFields |-> NoneVal]

\* one field of PromptMeta: a str (or a date, for created) or None; a
\* string holding an ISO date is taken as that date; keys that are not
\* fields are ignored (the headers of the model give created no integer
\* and no boolean)
meta_field(f, data) ==
    IF <<f>> \notin DOMAIN data THEN [ok |-> TRUE, val |-> NoneVal]
    ELSE LET v == data[<<f>>]
         IN  IF f = "created"
             THEN CASE v.t = "date" -> [ok |-> TRUE, val |-> v]
                    [] v.t = "str" /\ v.s \in {<<d>> : d \in DateAtoms} ->
                           [ok |-> TRUE, val |-> DateVal(v.s[1])]
                    [] v.t = "str" /\ v.s \notin {<<d>> : d \in DateAtoms} ->
                           [ok |-> FALSE]
             ELSE IF v.t = "str" THEN [ok |-> TRUE, val |-> v] ELSE [ok |-> FALSE]

\* PromptMeta.model_validate(data)
PromptMeta_model_validate(data) ==
    IF \A f \in MetaFields : meta_field(f, data).ok
    THEN [kind |-> "ok", meta |-> [f \in MetaFields |-> meta_field(f, data).val]]
    ELSE [kind |-> "raise", exc |-> "ValidationError"]

\* faulty variant: only a body of no characters at all is rejected
Prompt_model_validate_nonempty(path, meta, prompt, warned) ==
    IF prompt = <<>>
    THEN [kind |-> "raise", exc |-> "ValidationError", msg |-> "Prompt body is empty",
          names |-> <<>>, hint |-> "", warned |-> warned]
    ELSE [kind |-> "ok", path |-> path, meta |-> meta, prompt |-> prompt,
          warned |-> warned]

\* faulty variant: no warning reaches the caller
Prompt_model_validate_unwarned(path, meta, prompt, warned) ==
    IF strip(prompt) = <<>>
    THEN [kind |-> "raise", exc |-> "ValidationError", msg |-> "Prompt body is empty",
          names |-> <<>>, hint |-> "", warned |-> FALSE]
    ELSE [kind |-> "ok", path |-> path, meta |-> meta, prompt |-> prompt,
          warned |-> FALSE]

\* Prompt.model_validate: prompt_not_empty rejects a body of white space
Prompt_model_validate(path, meta, prompt, warned) ==
    IF strip(prompt) = <<>>
    THEN [kind |-> "raise", exc |-> "ValidationError", msg |-> "Prompt body is empty",
          names |-> <<>>, hint |-> "", warned |-> warned]
    ELSE [kind |-> "ok", path |-> path, meta |-> meta, prompt |-> prompt,
          warned |-> warned]

----------------------------------------------------------------------------
(* _parser.parse_file and loaders.load_prompt *)

\* Path.stem: the file name without its last suffix
stem(path) ==
    LET dots == {i \in 2..Len(path) : path[i] = "."}
    IN  IF dots = {} THEN path
        ELSE SubSeq(path, 1, (CHOOSE i \in dots : \A j \in dots : j <= i) - 1)

RequiredFields == {"title", "description", "version"}

\* "not x" of Python on a value of a TOML table
Falsy(v) ==
    CASE v.t = "str" -> v.s = <<>>
      [] v.t = "int" -> v.n = 0
      [] v.t = "bool" -> ~v.b
      [] v.t = "date" -> FALSE

\* str(x) of a value of a TOML table
StrOf(v) ==
    CASE v.t = "str" -> v.s
      [] v.t = "int" -> IntToStr(v.n)
      [] v.t = "bool" -> IF v.b THEN <<"True">> ELSE <<"False">>
      [] v.t = "date" -> <<v.d>>

missing_fields(data) == {f \in RequiredFields : <<f>> \notin DOMAIN data}

empty_fields(data) ==
    {f \in RequiredFields : Falsy(data[<<f>>]) \/ strip(StrOf(data[<<f>>])) = <<>>}

\* the field names as the message lists them: sorted(...)
SortedNames(S) == Sorted({<<f>> : f \in S})

\* faulty variant: the empty-value check runs first, on the fields that are present
header_meta_empty_first(header_txt, metadata_mode) ==
    LET t == toml_loads(header_txt)
        present == {f \in RequiredFields : <<f>> \in DOMAIN t.data}
        empty == {f \in present :
                     Falsy(t.data[<<f>>]) \/ strip(StrOf(t.data[<<f>>])) = <<>>}
    IN  IF t.kind = "error"
        THEN RaiseLoad("InvalidMetadataError", "Invalid TOML in front matter",
                       <<>>, "IGNORE")
        ELSE IF metadata_mode = "STRICT" /\ empty # {}
        THEN RaiseLoad("InvalidMetadataError", "Empty required metadata fields",
                       SortedNames(empty), "ALLOW")
        ELSE IF metadata_mode = "STRICT" /\ missing_fields(t.data) # {}
        THEN RaiseLoad("InvalidMetadataError", "Missing required metadata fields",
                       SortedNames(missing_fields(t.data)), "ALLOW")
        ELSE LET m == PromptMeta_model_validate(t.data)
             IN  IF m.kind = "raise"
                 THEN RaiseLoad("InvalidMetadataError", "Invalid metadata", <<>>, "")
                 ELSE m

\* faulty variant: outside STRICT a header that does not parse counts as empty
header_meta_toml_lenient(header_txt, metadata_mode) ==
    LET t == toml_loads(header_txt)
    IN  IF t.kind = "error"
        THEN IF metadata_mode = "STRICT"
             THEN RaiseLoad("InvalidMetadataError", "Invalid TOML in front matter",
                            <<>>, "IGNORE")
             ELSE [kind |-> "ok", meta |-> EmptyMeta]
        ELSE IF metadata_mode = "STRICT" /\ missing_fields(t.data) # {}
        THEN RaiseLoad("InvalidMetadataError", "Missing required metadata fields",
                       SortedNames(missing_fields(t.data)), "ALLOW")
        ELSE IF metadata_mode = "STRICT" /\ empty_fields(t.data) # {}
        THEN RaiseLoad("InvalidMetadataError", "Empty required metadata fields",
                       SortedNames(empty_fields(t.data)), "ALLOW")
        ELSE LET m == PromptMeta_model_validate(t.data)
             IN  IF m.kind = "raise"
                 THEN RaiseLoad("InvalidMetadataError", "Invalid metadata", <<>>, "")
                 ELSE m

\* faulty variant: STRICT validates the three required fields only
header_meta_strict_required(header_txt, metadata_mode) ==
    LET t == toml_loads(header_txt)
    IN  IF t.kind = "error"
        THEN Caused(RaiseLoad("InvalidMetadataError", "Invalid TOML in front matter",
                              <<>>, "IGNORE"), "TOMLDecodeError")
        ELSE IF metadata_mode = "STRICT" /\ missing_fields(t.data) # {}
        THEN RaiseLoad("InvalidMetadataError", "Missing required metadata fields",
                       SortedNames(missing_fields(t.data)), "ALLOW")
        ELSE IF metadata_mode = "STRICT" /\ empty_fields(t.data) # {}
        THEN RaiseLoad("InvalidMetadataError", "Empty required metadata fields",
                       SortedNames(empty_fields(t.data)), "ALLOW")
        ELSE LET m == PromptMeta_model_validate(
                          IF metadata_mode = "STRICT"
                          THEN [k \in {<<f>> : f \in RequiredFields} |-> t.data[k]]
                          ELSE t.data)
             IN  IF m.kind = "raise"
                 THEN Caused(RaiseLoad("InvalidMetadataError", "Invalid metadata",
                                       <<>>, ""), m.exc)
                 ELSE m

\* the try block of parse_file: the header text to a PromptMeta
header_meta(header_txt, metadata_mode) ==
    LET t == toml_loads(header_txt)
    IN  IF t.kind = "error"
        THEN Caused(RaiseLoad("InvalidMetadataError", "Invalid TOML in front matter",
                              <<>>, "IGNORE"), "TOMLDecodeError")
        ELSE IF metadata_mode = "STRICT" /\ missing_fields(t.data) # {}
        THEN RaiseLoad("InvalidMetadataError", "Missing required metadata fields",
                       SortedNames(missing_fields(t.data)), "ALLOW")
        ELSE IF metadata_mode = "STRICT" /\ empty_fields(t.data) # {}
        THEN RaiseLoad("InvalidMetadataError", "Empty required metadata fields",
                       SortedNames(empty_fields(t.data)), "ALLOW")
        ELSE LET m == PromptMeta_model_validate(t.data)
             IN  IF m.kind = "raise"
                 THEN Caused(RaiseLoad("InvalidMetadataError", "Invalid metadata",
                                       <<>>, ""), m.exc)
                 ELSE m

\* faulty variant: the file name also replaces an empty title
with_title_if_falsy(meta, path) ==
    IF meta.title = NoneVal \/ meta.title = StrVal(<<>>)
    THEN [meta EXCEPT !.title = StrVal(stem(path))] ELSE meta

\* meta.title = path.stem when the title is None
with_title(meta, path) ==
    IF meta.title = NoneVal THEN [meta EXCEPT !.title = StrVal(stem(path))] ELSE meta

\* no warning was issued
Quiet(r) == r @@ [warned |-> FALSE]

\* faulty variant: the MalformedHeaderError of the splitter is raised as it is
parse_file_reraise(path, file, metadata_mode, warn) ==
    IF file.kind = "binary"
    THEN Caused(Quiet(RaiseLoad("TextPromptsError", "Cannot decode as UTF-8", <<>>, "")),
                "UnicodeDecodeError")
    ELSE IF metadata_mode = "IGNORE"
    THEN Prompt_model_validate(path, [EmptyMeta EXCEPT !.title = StrVal(stem(path))],
             dedent(file.text),
             warn /\ StartsWith(file.text, DELIM)
                  /\ Find(file.text, DELIM, Len(DELIM) + 1) # 0)
    ELSE LET split == _split_front_matter(file.text)
         IN  IF split.kind = "raise"
             THEN Quiet(split)
             ELSE IF split.header = NoneVal
             THEN IF metadata_mode = "STRICT"
                  THEN Quiet(RaiseLoad("MissingMetadataError", "No metadata found",
                                       <<>>, "ALLOW or IGNORE"))
                  ELSE Prompt_model_validate(path, with_title(EmptyMeta, path),
                                             dedent(split.body), FALSE)
             ELSE LET m == header_meta(split.header.s, metadata_mode)
                  IN  IF m.kind = "raise" THEN Quiet(m)
                      ELSE Prompt_model_validate(path, with_title(m.meta, path),
                                                 dedent(split.body), FALSE)

\* parse_file(path, metadata_mode=...) on a file that exists
parse_file(path, file, metadata_mode, warn) ==
    IF file.kind = "binary"
    THEN Caused(Quiet(RaiseLoad("TextPromptsError", "Cannot decode as UTF-8", <<>>, "")),
                "UnicodeDecodeError")
    ELSE IF metadata_mode = "IGNORE"
    THEN Prompt_model_validate(path, [EmptyMeta EXCEPT !.title = StrVal(stem(path))],
             dedent(file.text),
             warn /\ StartsWith(file.text, DELIM)
                  /\ Find(file.text, DELIM, Len(DELIM) + 1) # 0)
    ELSE LET split == _split_front_matter(file.text)
         IN  IF split.kind = "raise"
             THEN Caused(Quiet(RaiseLoad("InvalidMetadataError", split.msg, <<>>,
                                         "IGNORE")), split.exc)
             ELSE IF split.header = NoneVal
             THEN IF metadata_mode = "STRICT"
                  THEN Quiet(RaiseLoad("MissingMetadataError", "No metadata found",
                                       <<>>, "ALLOW or IGNORE"))
                  ELSE Prompt_model_validate(path, with_title(EmptyMeta, path),
                                             dedent(split.body), FALSE)
             ELSE LET m == header_meta(split.header.s, metadata_mode)
                  IN  IF m.kind = "raise" THEN Quiet(m)
                      ELSE Prompt_model_validate(path, with_title(m.meta, path),
                                                 dedent(split.body), FALSE)

\* faulty variant: the mode is resolved before the path is looked at
load_prompt_mode_first(path, meta, fs, global, warn) ==
    LET mode == _resolve_metadata_mode(meta, global)
    IN  IF mode.kind = "raise" THEN Quiet(RaiseLoad(mode.exc, mode.msg, <<>>, ""))
        ELSE IF path \notin DOMAIN fs \/ fs[path].kind = "dir"
        THEN Quiet(RaiseLoad("FileMissingError", "File not found", <<>>, ""))
        ELSE parse_file(path, fs[path], mode.val.m, warn)

\* load_prompt(path, meta=...)
load_prompt(path, meta, fs, global, warn) ==
    IF path \notin DOMAIN fs \/ fs[path].kind = "dir"
    THEN Quiet(RaiseLoad("FileMissingError", "File not found", <<>>, ""))
    ELSE LET mode == _resolve_metadata_mode(meta, global)
         IN  IF mode.kind = "raise" THEN Quiet(RaiseLoad(mode.exc, mode.msg, <<>>, ""))
             ELSE parse_file(path, fs[path], mode.val.m, warn)

----------------------------------------------------------------------------
(* errors.py and cli.main *)

\* TextPromptsError and its subclasses
TextPromptsErrors ==
    {"TextPromptsError", "FileMissingError", "MissingMetadataError",
     "InvalidMetadataError", "MalformedHeaderError"}

\* the try statement of main around the outcome r of the load: the metadata
\* as JSON or the body on stdout; a TextPromptsError is printed as
\* "Error: ..." on stderr with exit code 1, any other exception leaves main
\* and the interpreter prints its traceback on stderr and exits with code 1
main_outcome(json, r) ==
    IF r.kind = "ok"
    THEN [kind |-> "exit", code |-> 0, stderr |-> "",
          stdout |-> IF json THEN [t |-> "json", v |-> r.meta]
                     ELSE [t |-> "text", v |-> r.prompt]]
    ELSE IF r.exc \in TextPromptsErrors
    THEN [kind |-> "exit", code |-> 1, stderr |-> "Error", exc |-> r.exc,
          msg |-> r.msg]
    ELSE [kind |-> "exit", code |-> 1, stderr |-> "Traceback", exc |-> r.exc,
          msg |-> r.msg]

\* main(): load_prompt(args.file, meta="ignore") and what is made of it
main(file, json, fs, global, warn) ==
    main_outcome(json, load_prompt(file, StrVal(<<"i", "g", "n", "o", "r", "e">>),
                                   fs, global, warn))

----------------------------------------------------------------------------
(* savers.save_prompt *)

\* a Prompt object
PromptVal(path, meta, prompt) ==
    [t |-> "Prompt", path |-> path, meta |-> meta, prompt |-> prompt]

\* v or "" for a field that is a string or None
or_empty(v) == IF v = NoneVal \/ v = StrVal(<<>>) THEN <<>> ELSE v.s

\* f'{key} = "{text}"' and the newline that joins it to the next line
save_line(key, text) == <<key, " ", "=", " ", "\"">> \o text \o <<"\"", "\n">>

\* the text written for a string: a template with the required fields empty
save_template(content) ==
    DELIM \o <<"\n">> \o save_line("title", <<>>) \o save_line("description", <<>>)
        \o save_line("version", <<>>) \o DELIM \o <<"\n", "\n">> \o content

\* the text written for a Prompt: the required fields always, author and
\* created when they are truthy, then an empty line and the body
save_lines(content) ==
    LET meta == IF content.meta = NoneVal THEN EmptyMeta ELSE content.meta
    IN  DELIM \o <<"\n">>
            \o save_line("title", or_empty(meta.title))
            \o save_line("description", or_empty(meta.description))
            \o save_line("version", or_empty(meta.version))
            \o (IF meta.author = NoneVal \/ meta.author = StrVal(<<>>) THEN <<>>
                ELSE save_line("author", meta.author.s))
            \o (IF meta.created = NoneVal THEN <<>>
                ELSE save_line("created", <<meta.created.d>>))
            \o DELIM \o <<"\n", "\n">> \o content.prompt

\* path.write_text(text) on the files fs
write_text(path, text, fs) ==
    IF path \in DOMAIN fs /\ fs[path].kind = "dir"
    THEN [res |-> Raise("IsADirectoryError", "Is a directory"), fs |-> fs]
    ELSE [res |-> [kind |-> "ok", val |-> NoneVal],
          fs |-> [p \in DOMAIN fs \cup {path} |->
                     IF p = path THEN [kind |-> "text", text |-> text] ELSE fs[p]]]

\* save_prompt(path, content)
save_prompt(path, content, fs) ==
    IF content.t = "str" THEN write_text(path, save_template(content.s), fs)
    ELSE IF content.t = "Prompt" THEN write_text(path, save_lines(content), fs)
    ELSE [res |-> Raise("TypeError", "content must be str or Prompt"), fs |-> fs]

----------------------------------------------------------------------------
(* SpecScan: extract_placeholders applied to every text up to MaxScanLen *)

ScanAlphabet == {"{", "}", ":", "a"}

NoResult == [kind |-> "none"]

\* no load_prompts call has been made
NoBatch == pending = <<>> /\ collected = <<>> /\ file_count = 0

\* the loader is not used: no file, and config as imported without the
\* environment variable
NoLoader ==
    /\ files = <<>>
    /\ _METADATA_MODE = "IGNORE"
    /\ _WARN_ON_IGNORED_META = TRUE
    /\ call = [op |-> "import"]
    /\ stored = ModeVal("IGNORE")
    /\ NoBatch

InitScan ==
    /\ value = <<>>
    /\ placeholders = {}
    /\ args = <<>>
    /\ kwargs = <<>>
    /\ skip_validation = FALSE
    /\ result = NoResult
    /\ NoLoader

\* PromptString.__new__(value): the text is kept and scanned once
Construct ==
    /\ result = NoResult
    /\ \E t \in Texts(ScanAlphabet, MaxScanLen) :
        /\ value' = t
        /\ placeholders' = extract_placeholders(t)
    /\ result' = [kind |-> "constructed"]
    /\ UNCHANGED <<args, kwargs, skip_validation, loader_vars, batch_vars>>

NextScan == Construct

SpecScan == InitScan /\ [][NextScan]_vars

----------------------------------------------------------------------------
(* SpecFormat: a PromptString of every template, and format calls on it *)

Alphabet == {"{", "}", ":", "a", "0", " "}

Pieces ==
    {<<"{", "a", "}">>, <<"{", "}">>, <<"{", "0", "}">>, <<"{", "a", ":", "}">>,
     <<"{", "a", ":", "0", "}">>, <<"{", "{">>, <<"}", "}">>, <<"{">>, <<"}">>,
     <<" ">>, <<"a">>}

\* the concatenations of at most n pieces
RECURSIVE Joined(_)
Joined(n) ==
    IF n = 0 THEN {<<>>}
    ELSE Joined(n - 1) \cup {t \o p : t \in Joined(n - 1), p \in Pieces}

Templates == Texts(Alphabet, MaxLen) \cup Joined(MaxPieces)

\* the arguments of a format call: positional and keyword
Calls ==
    {[a |-> <<>>, kw |-> <<>>],
     [a |-> <<StrVal(<<"v">>)>>, kw |-> <<>>],
     [a |-> <<StrVal(<<"v">>), StrVal(<<"w">>)>>, kw |-> <<>>],
     [a |-> <<IntVal(0)>>, kw |-> <<>>],
     [a |-> <<>>, kw |-> (<<"a">> :> StrVal(<<"v">>))],
     [a |-> <<StrVal(<<"v">>)>>, kw |-> (<<"a">> :> StrVal(<<"{", "0", "}">>))],
     [a |-> <<>>, kw |-> (<<"a">> :> StrVal(<<"{", "a", "}">>))],
     [a |-> <<StrVal(<<"v">>)>>, kw |-> (<<"a">> :> IntVal(0))]}

\* PromptString.__new__ has run on some template
InitFormat ==
    /\ value \in Templates
    /\ placeholders = extract_placeholders(value)
    /\ args = <<>>
    /\ kwargs = <<>>
    /\ skip_validation = FALSE
    /\ result = NoResult
    /\ NoLoader

\* faulty variant: a format call takes the supplied names out of the set
FormatConsuming ==
    \E c \in Calls, skip \in BOOLEAN, order \in Orders(placeholders) :
        /\ args' = c.a
        /\ kwargs' = c.kw
        /\ skip_validation' = skip
        /\ result' = format(value, placeholders, order, c.a, c.kw, skip)
        /\ placeholders' = placeholders \ DOMAIN with_positional(c.a, c.kw)
        /\ UNCHANGED <<value, loader_vars, batch_vars>>

\* PromptString.format: the template and its placeholder set are only read
Format ==
    \E c \in Calls, skip \in BOOLEAN, order \in Orders(placeholders) :
        /\ args' = c.a
        /\ kwargs' = c.kw
        /\ skip_validation' = skip
        /\ result' = format(value, placeholders, order, c.a, c.kw, skip)
        /\ UNCHANGED <<value, placeholders, loader_vars, batch_vars>>

NextFormat == Format

SpecFormat == InitFormat /\ [][NextFormat]_vars

----------------------------------------------------------------------------
(* SpecLoad: one prompt file, and calls of set_metadata, skip_metadata,     *)
(* get_metadata and load_prompt in any order                                *)

Quoted(s) == <<"\"">> \o s \o <<"\"">>

\* what a required key is given in the header: nothing (the key is absent),
\* a word or the empty string
NoLine == <<"absent">>
ReqOptions == {NoLine, Quoted(<<"A">>), Quoted(<<>>)}

\* a word or the empty string
TextOptions == {Quoted(<<"A">>), Quoted(<<>>)}

\* a blank string, and the integer 0
OddOptions == {Quoted(<<" ">>), <<"0">>}

\* the line "key = value" and its line end; nothing for an absent key
HeaderLine(key, v) ==
    IF v = NoLine THEN <<>> ELSE <<key, " ", "=", " ">> \o v \o <<"\n">>

ReqHeader(t, d, v) ==
    HeaderLine("title", t) \o HeaderLine("description", d) \o HeaderLine("version", v)

\* further lines: other fields of PromptMeta with values of several types, a
\* key that is no field, a line that is no key/value pair, a repeated key,
\* and a value holding the delimiter
ExtraLines ==
    {HeaderLine("author", Quoted(<<"B">>)),
     HeaderLine("author", <<"5">>),
     HeaderLine("author", <<"false">>),
     HeaderLine("created", <<"2024-01-15">>),
     HeaderLine("created", Quoted(<<"2024-01-15">>)),
     HeaderLine("created", Quoted(<<"B">>)),
     HeaderLine("extra", Quoted(<<"B">>)),
     <<"B", "\n">>,
     HeaderLine("author", Quoted(<<"B">>)) \o HeaderLine("author", Quoted(<<"B">>)),
     HeaderLine("author", Quoted(<<"B", "-", "-", "-", "B">>))}

FullHeader == ReqHeader(Quoted(<<"A">>), Quoted(<<"A">>), Quoted(<<"A">>))

\* the headers: every choice for the required keys, one required key given
\* a blank or 0, and the further lines after all or none of the required
Headers ==
    {ReqHeader(t, d, v) : t \in ReqOptions, d \in ReqOptions, v \in ReqOptions}
        \cup {ReqHeader(x, d, v) : x \in OddOptions, d \in TextOptions, v \in TextOptions}
        \cup {ReqHeader(t, x, v) : x \in OddOptions, t \in TextOptions, v \in TextOptions}
        \cup {ReqHeader(t, d, x) : x \in OddOptions, t \in TextOptions, d \in TextOptions}
        \cup {h \o e : h \in {FullHeader, <<>>}, e \in ExtraLines}

Hello == <<"Hello", " ", "{", "a", "}", "\n">>

Bodies ==
    {Hello, <<>>, <<" ", "\n">>, <<"\n", "\n">> \o Hello,
     <<" ", " ", "Hello", "\n", " ", "\n", " ", " ", " ", "B", "\n">>,
     <<"Hello", "\n">> \o DELIM \o <<"\n", "B", "\n">>}

\* a file with front matter
WithHeader(h, b) == DELIM \o <<"\n">> \o h \o DELIM \o <<"\n">> \o b

FileTexts ==
    {WithHeader(h, Hello) : h \in Headers}
        \cup {WithHeader(h, b) : h \in {FullHeader, <<>>}, b \in Bodies}
        \cup Bodies
        \cup {<<" ">> \o WithHeader(FullHeader, Hello),
              <<"\n">> \o WithHeader(FullHeader, Hello),
              DELIM \o <<"\n">> \o FullHeader \o Hello,
              DELIM \o <<"-">>,
              DELIM \o DELIM}

\* what a path can hold: text, bytes that are not UTF-8, or a directory
FileStates ==
    {[kind |-> "text", text |-> t] : t \in FileTexts}
        \cup {[kind |-> "binary"], [kind |-> "dir"]}

PromptPath == <<"greet", ".", "txt">>
NoSuchPath == <<"none", ".", "txt">>

\* mode strings, in several letter cases ("ignore" as the docstrings write
\* it), and strings that name no mode
ModeStrings ==
    {<<"S", "T", "R", "I", "C", "T">>,
     <<"A", "l", "L", "o", "W">>,
     <<"i", "g", "n", "o", "r", "e">>,
     <<"s", "t", "r", "i", "c", "t", " ">>, <<>>}

ModeArgs == {ModeVal(m) : m \in MetadataModes} \cup {StrVal(s) : s \in ModeStrings}

\* the module config has been imported, under some TEXTPROMPTS_METADATA_MODE
InitLoad ==
    /\ value = <<>> /\ placeholders = {} /\ args = <<>> /\ kwargs = <<>>
    /\ skip_validation = FALSE
    /\ result = NoResult
    /\ \E f \in FileStates : files = (PromptPath :> f)
    /\ \E env \in {NoneVal} \cup {StrVal(s) : s \in ModeStrings} :
        /\ _METADATA_MODE = env_mode(env)
        /\ stored = ModeVal(env_mode(env))
        /\ call = [op |-> "import", env |-> env]
    /\ _WARN_ON_IGNORED_META = TRUE
    /\ NoBatch

SetMetadata ==
    \E mode \in ModeArgs \cup {IntVal(5)} :
        LET r == set_metadata(mode, _METADATA_MODE)
        IN  /\ call' = [op |-> "set_metadata", mode |-> mode]
            /\ _METADATA_MODE' = r.mode
            /\ stored' = IF r.res.kind = "ok" THEN mode ELSE stored
            /\ result' = r.res
            /\ UNCHANGED <<files, _WARN_ON_IGNORED_META, prompt_vars, batch_vars>>

\* skip_metadata(skip_warning=...): sets the warning flag, then set_metadata
SkipMetadata ==
    \E skip_warning \in BOOLEAN :
        LET r == set_metadata(ModeVal("IGNORE"), _METADATA_MODE)
        IN  /\ call' = [op |-> "skip_metadata", skip_warning |-> skip_warning]
            /\ _WARN_ON_IGNORED_META' = ~skip_warning
            /\ _METADATA_MODE' = r.mode
            /\ stored' = IF r.res.kind = "ok" THEN ModeVal("IGNORE") ELSE stored
            /\ result' = r.res
            /\ UNCHANGED <<files, prompt_vars, batch_vars>>

GetMetadata ==
    /\ call' = [op |-> "get_metadata"]
    /\ result' = [kind |-> "ok", val |-> ModeVal(_METADATA_MODE)]
    /\ UNCHANGED <<files, _METADATA_MODE, _WARN_ON_IGNORED_META, stored, prompt_vars, batch_vars>>

LoadPrompt ==
    \E path \in {PromptPath, NoSuchPath}, meta \in {NoneVal} \cup ModeArgs :
        /\ call' = [op |-> "load_prompt", path |-> path, meta |-> meta]
        /\ result' = load_prompt(path, meta, files, _METADATA_MODE,
                                 _WARN_ON_IGNORED_META)
        /\ UNCHANGED <<files, _METADATA_MODE, _WARN_ON_IGNORED_META, stored,
                       prompt_vars, batch_vars>>

\* the metadata of the Prompt objects that are saved: every field, no field,
\* the title only, a title holding a double quote, an empty author
SavedMetas ==
    LET full == [title |-> StrVal(<<"A">>), description |-> StrVal(<<"A">>),
                 version |-> StrVal(<<"A">>), author |-> StrVal(<<"B">>),
                 created |-> DateVal("2024-01-15")]
    IN  {full, EmptyMeta, NoneVal,
         [EmptyMeta EXCEPT !.title = StrVal(<<"A">>)],
         [full EXCEPT !.title = StrVal(<<"A", "\"", "B">>)],
         [full EXCEPT !.author = StrVal(<<>>)]}

\* what save_prompt is given: a Prompt, a string, or an integer
SaveContents ==
    {PromptVal(PromptPath, meta, Hello) : meta \in SavedMetas}
        \cup {StrVal(Hello), IntVal(5)}

SavePrompt ==
    \E content \in SaveContents :
        LET r == save_prompt(PromptPath, content, files)
        IN  /\ call' = [op |-> "save_prompt", path |-> PromptPath, content |-> content]
            /\ files' = r.fs
            /\ result' = r.res
            /\ UNCHANGED <<_METADATA_MODE, _WARN_ON_IGNORED_META, stored, prompt_vars, batch_vars>>

\* python -m textprompts.cli FILE [--json]
Main ==
    \E file \in {PromptPath, NoSuchPath}, json \in BOOLEAN :
        /\ call' = [op |-> "main", file |-> file, json |-> json]
        /\ result' = main(file, json, files, _METADATA_MODE, _WARN_ON_IGNORED_META)
        /\ UNCHANGED <<files, _METADATA_MODE, _WARN_ON_IGNORED_META, stored,
                       prompt_vars, batch_vars>>

NextLoad ==
    SetMetadata \/ SkipMetadata \/ GetMetadata \/ LoadPrompt \/ Main \/ SavePrompt

SpecLoad == InitLoad /\ [][NextLoad]_vars

----------------------------------------------------------------------------
(* loaders.load_prompts, file by file, with set_metadata called from       *)
(* another thread.  A path is written by its file name; a directory holds  *)
(* the names of its entries.                                               *)

ByePath == <<"bye", ".", "txt">>
HiPath == <<"hi", ".", "txt">>
NotePath == <<"note", ".", "md">>
DirPath == <<"prompts">>

\* Path.is_dir
is_dir(p, fs) == p \in DOMAIN fs /\ fs[p].kind = "dir"

\* pth.glob("*.txt"), the default glob: the entries of the directory whose
\* name ends in .txt
glob(p, fs) ==
    {f \in fs[p].entries : Len(f) >= 2 /\ f[Len(f) - 1] = "." /\ f[Len(f)] = "txt"}

\* the test before each load: max_files and file_count >= max_files
\* (None and 0 are falsy)
limit_reached(max_files, count) ==
    /\ max_files # NoneVal
    /\ max_files.n # 0
    /\ count >= max_files.n

\* a path argument not yet looked at, and a file that a glob has yielded
PathArg(p) == [p |-> p, of |-> "paths"]
Globbed(p) == [p |-> p, of |-> "itr"]

\* load_prompts is running
Running == [kind |-> "running"]

\* the files of a batch: with or without front matter
BatchTexts == {WithHeader(FullHeader, Hello), Hello}

\* the file system of a batch: two files, and a directory of two prompt
\* files and a file that the glob does not match
BatchFiles ==
    {(PromptPath :> [kind |-> "text", text |-> a])
        @@ (ByePath :> [kind |-> "text", text |-> b])
        @@ (HiPath :> [kind |-> "text", text |-> WithHeader(FullHeader, Hello)])
        @@ (NotePath :> [kind |-> "text", text |-> Hello])
        @@ (DirPath :> [kind |-> "dir", entries |-> {ByePath, HiPath, NotePath}]) :
     a \in BatchTexts, b \in BatchTexts}

\* the positional arguments of load_prompts
BatchPaths ==
    {<<>>, <<PromptPath>>, <<PromptPath, ByePath>>, <<DirPath>>,
     <<PromptPath, DirPath>>, <<PromptPath, NoSuchPath>>}

\* the max_files arguments
MaxFilesArgs == {NoneVal, IntVal(0), IntVal(1), IntVal(2)}

\* config has been imported under some TEXTPROMPTS_METADATA_MODE, and no
\* call has been made
InitBatch ==
    /\ value = <<>> /\ placeholders = {} /\ args = <<>> /\ kwargs = <<>>
    /\ skip_validation = FALSE
    /\ result = NoResult
    /\ files \in BatchFiles
    /\ \E env \in {NoneVal, StrVal(<<"S", "T", "R", "I", "C", "T">>),
                   StrVal(<<"A", "l", "L", "o", "W">>)} :
        /\ _METADATA_MODE = env_mode(env)
        /\ stored = ModeVal(env_mode(env))
        /\ call = [op |-> "import", env |-> env]
    /\ _WARN_ON_IGNORED_META = TRUE
    /\ NoBatch

\* load_prompts(*paths, max_files=..., meta=...) is entered
LoadPrompts ==
    /\ call.op = "import"
    /\ \E paths \in BatchPaths, max_files \in MaxFilesArgs,
          meta \in {NoneVal, ModeVal("ALLOW"), StrVal(<<>>)} :
        /\ call' = [op |-> "load_prompts", paths |-> paths,
                    max_files |-> max_files, meta |-> meta]
        /\ pending' = [i \in DOMAIN paths |-> PathArg(paths[i])]
        /\ collected' = <<>>
        /\ file_count' = 0
        /\ result' = Running
    /\ UNCHANGED <<files, _METADATA_MODE, _WARN_ON_IGNORED_META, stored, prompt_vars>>

\* for p in paths, when p is a directory: the glob yields its matches in
\* the order of the file system
IterDir ==
    /\ result = Running /\ pending # <<>>
    /\ pending[1].of = "paths" /\ is_dir(pending[1].p, files)
    /\ \E order \in Orders(glob(pending[1].p, files)) :
        pending' = [i \in DOMAIN order |-> Globbed(order[i])] \o Tail(pending)
    /\ UNCHANGED <<files, _METADATA_MODE, _WARN_ON_IGNORED_META, stored, call,
                   result, collected, file_count, prompt_vars>>

\* what one pass of the loop makes of the outcome r of load_prompt: the
\* Prompt is collected and counted, an exception leaves load_prompts
load_next(r) ==
    IF r.kind = "ok"
    THEN /\ collected' = Append(collected, r)
         /\ file_count' = file_count + 1
         /\ pending' = Tail(pending)
         /\ result' = result
    ELSE /\ result' = r
         /\ pending' = <<>>
         /\ UNCHANGED <<collected, file_count>>

\* one file of the batch: the limit is tested, then the file is loaded with
\* the meta argument of the batch
LoadNext ==
    /\ result = Running /\ pending # <<>>
    /\ ~(pending[1].of = "paths" /\ is_dir(pending[1].p, files))
    /\ IF limit_reached(call.max_files, file_count)
       THEN /\ result' = Raise("TextPromptsError", "Exceeded max_files limit")
            /\ pending' = <<>>
            /\ UNCHANGED <<collected, file_count>>
       ELSE load_next(load_prompt(pending[1].p, call.meta, files, _METADATA_MODE,
                                  _WARN_ON_IGNORED_META))
    /\ UNCHANGED <<files, _METADATA_MODE, _WARN_ON_IGNORED_META, stored, call,
                   prompt_vars>>

\* return collected
ReturnCollected ==
    /\ result = Running /\ pending = <<>>
    /\ result' = [kind |-> "ok", val |-> collected]
    /\ UNCHANGED <<files, _METADATA_MODE, _WARN_ON_IGNORED_META, stored, call,
                   batch_vars, prompt_vars>>

\* set_metadata(mode) in another thread, at any point of the batch
ThreadSetMetadata ==
    /\ \E m \in MetadataModes :
        /\ _METADATA_MODE' = set_metadata(ModeVal(m), _METADATA_MODE).mode
        /\ stored' = ModeVal(m)
    /\ UNCHANGED <<files, _WARN_ON_IGNORED_META, call, result, batch_vars,
                   prompt_vars>>

NextBatch == LoadPrompts \/ IterDir \/ LoadNext \/ ReturnCollected \/ ThreadSetMetadata

SpecBatch == InitBatch /\ [][NextBatch]_vars

----------------------------------------------------------------------------
(* Claims about PromptString.format, checked under SpecFormat *)

\* a validated format call has returned or raised
Validated == result.kind \in {"ok", "raise"} /\ ~skip_validation

\* a partial format call has returned or raised
Partial == result.kind \in {"ok", "raise"} /\ skip_validation

\* the claim's reading of "supplied": a keyword name, the stringified index
\* of a positional argument, or the empty name when a positional is given
Supplied(p) ==
    \/ p \in DOMAIN kwargs
    \/ \E i \in 0..(Len(args) - 1) : p = IntToStr(i)
    \/ p = <<>> /\ Len(args) >= 1

Unsupplied == {p \in placeholders : ~Supplied(p)}

\* seq lists exactly the members of S, in strictly increasing str order
ListsSorted(seq, S) ==
    /\ {seq[i] : i \in 1..Len(seq)} = S
    /\ \A i \in 1..(Len(seq) - 1) : StrLess(seq[i], seq[i + 1])

RaisedMissing ==
    result.kind = "raise" /\ result.exc = "ValueError"
        /\ result.msg = "Missing format variables"

\* C1 as stated: a validated format raises ValueError exactly when a
\* placeholder is unsupplied, and then lists the unsupplied names sorted
C1_Original ==
    Validated =>
        /\ (result.kind = "raise" /\ result.exc = "ValueError") <=> (Unsupplied # {})
        /\ Unsupplied # {} => RaisedMissing /\ ListsSorted(result.names, Unsupplied)

\* C1 amended: a validated format raises the "Missing format variables"
\* ValueError exactly when a placeholder is unsupplied, listing exactly the
\* unsupplied names in sorted order and returning no string; any other
\* error (also a ValueError) is raised by the brace substitution itself,
\* only when nothing is unsupplied
C1_MissingIffUnsupplied ==
    Validated =>
        /\ RaisedMissing <=> (Unsupplied # {})
        /\ RaisedMissing => ListsSorted(result.names, Unsupplied)
        /\ (result.kind = "raise" /\ ~RaisedMissing) =>
               result = str_format(strip(value), args, kwargs)

\* a validated format raised for two unsupplied names
C1_Witness ==
    Validated /\ RaisedMissing /\ Len(result.names) >= 2

\* the text "{p}"
Braced(p) == <<"{">> \o p \o <<"}">>

\* C2 as stated: when every placeholder is supplied a validated format
\* raises nothing and its result holds no literal "{p}" for p a placeholder
C2_Original ==
    (Validated /\ Unsupplied = {}) =>
        /\ result.kind = "ok"
        /\ \A p \in placeholders : ~Contains(result.val, Braced(p))

HasBrace(s) == \E i \in 1..Len(s) : s[i] \in {"{", "}"}

\* no supplied value holds a brace
ValuesBraceFree ==
    /\ \A i \in 1..Len(args) : ~HasBrace(Str(args[i]))
    /\ \A k \in DOMAIN kwargs : ~HasBrace(Str(kwargs[k]))

Doubled(s) == Contains(s, <<"{", "{">>) \/ Contains(s, <<"}", "}">>)

\* C2 amended: when every placeholder is supplied a validated format never
\* raises the "Missing format variables" error (the brace substitution may
\* raise its own), and when it returns, the template holds no doubled brace
\* and no supplied value holds a brace, the result holds no "{p}"
C2_CoveredFormat ==
    (Validated /\ Unsupplied = {}) =>
        /\ ~RaisedMissing
        /\ (result.kind = "ok" /\ ValuesBraceFree /\ ~Doubled(value)) =>
               \A p \in placeholders : ~Contains(result.val, Braced(p))

\* a validated format with two supplied placeholders returned
C2_Witness ==
    /\ Validated /\ result.kind = "ok" /\ ValuesBraceFree /\ ~Doubled(value)
    /\ Cardinality(placeholders) >= 2
    /\ Len(result.val) >= 2

\* the names _partial_format looks up: keyword names and stringified indices
Lookup == (DOMAIN kwargs) \cup {IntToStr(i) : i \in 0..(Len(args) - 1)}

\* no "{" stands between a "{" and the next "}"
Flat(s) ==
    \A i, j \in 1..Len(s) :
        (i < j /\ s[i] = "{" /\ s[j] = "{") => \E k \in (i + 1)..(j - 1) : s[k] = "}"

\* the placeholders written with a format spec, as they stand in s
SpecGroups(s) ==
    {g \in {SubSeq(s, i, j) : i \in 1..Len(s), j \in 1..Len(s)} :
        /\ Len(g) >= 3 /\ g[1] = "{" /\ g[Len(g)] = "}"
        /\ \E c \in 2..(Len(g) - 1) : g[c] = ":"
        /\ \A c \in 2..(Len(g) - 1) : g[c] \notin {"{", "}"}}

\* the name of a placeholder written with a format spec
GroupName(g) == SubSeq(g, 2, FirstOf(g, 2, {":"}) - 1)

\* p stands in s as a placeholder, bare or with a format spec
StandsIn(p, s) ==
    Contains(s, Braced(p)) \/ \E g \in SpecGroups(s) : GroupName(g) = p

\* C3: a partial format never raises, and (read on templates whose braces
\* are neither nested nor doubled, with supplied values that hold no brace)
\* every placeholder outside the lookup stays in the result wrapped in
\* braces and no placeholder in the lookup stays in the result
C3_Original ==
    Partial =>
        /\ result.kind = "ok"
        /\ (Flat(value) /\ ~Doubled(value) /\ ValuesBraceFree) =>
            /\ \A p \in placeholders \ Lookup : StandsIn(p, result.val)
            /\ \A p \in placeholders \cap Lookup : ~StandsIn(p, result.val)

----------------------------------------------------------------------------
(* Claims about extract_placeholders, checked under SpecScan *)

Constructed == result.kind = "constructed"

\* the positions of the "}" of s
Closers(s) == {j \in 1..Len(s) : s[j] = "}"}

\* the position after the last "}" before j (1 when there is none)
SegmentStart(s, j) ==
    LET before == {k \in Closers(s) : k < j}
    IN  IF before = {} THEN 1
        ELSE 1 + CHOOSE k \in before : \A m \in before : m <= k

\* the names of the single-brace groups of s, read off the text: each "}"
\* closes the group opened by the first "{" since the previous "}", and the
\* name runs from that "{" to the first ":" or to the "}"
GroupNames(s) ==
    {SubSeq(s, FirstOf(s, SegmentStart(s, j), {"{"}) + 1,
               FirstOf(s, FirstOf(s, SegmentStart(s, j), {"{"}), {":", "}"}) - 1) :
        j \in {c \in Closers(s) :
                  \E o \in SegmentStart(s, c)..(c - 1) : s[o] = "{"}}

\* C4: the scan returns names made of characters of the text other than "}"
\* and ":", each standing in the text right after a "{" and right before a
\* ":" or "}"; on a text without doubled braces it returns exactly the names
\* of the single-brace groups; a text with no "{" or no "}" gives no name
C4_Original ==
    Constructed =>
        /\ \A n \in placeholders :
               /\ \A k \in 1..Len(n) :
                      n[k] \notin {"}", ":"} /\ \E i \in 1..Len(value) : value[i] = n[k]
               /\ Contains(value, <<"{">> \o n \o <<"}">>)
                      \/ Contains(value, <<"{">> \o n \o <<":">>)
        /\ ~Doubled(value) => placeholders = GroupNames(value)
        /\ (Closers(value) = {} \/ FirstOf(value, 1, {"{"}) = 0) => placeholders = {}

\* C5: no returned name holds a character put in by the neutralisation of
\* "{{" and "}}", every returned name is a piece of the text itself, and a
\* text whose only braces are one "{{" gives no name
C5_Original ==
    Constructed =>
        /\ \A n \in placeholders :
               /\ \A k \in 1..Len(n) : n[k] \notin {ESCAPED_OPEN, ESCAPED_CLOSE}
               /\ \E i, j \in 1..Len(value) :
                      value[i] = "{" /\ i < j /\ n = SubSeq(value, i + 1, j - 1)
        /\ (Closers(value) = {} /\ Contains(value, <<"{", "{">>)) => placeholders = {}

----------------------------------------------------------------------------
(* Claims about the metadata mode and the loader, checked under SpecLoad *)

\* the capital of a letter of the mode names
Upper(c) ==
    CASE c = "a" -> "A" [] c = "c" -> "C" [] c = "e" -> "E" [] c = "g" -> "G"
      [] c = "i" -> "I" [] c = "l" -> "L" [] c = "n" -> "N" [] c = "o" -> "O"
      [] c = "r" -> "R" [] c = "s" -> "S" [] c = "t" -> "T" [] c = "w" -> "W"

\* v is the member m, or a string spelling the value of m in any letter case
NamesMode(v, m) ==
    \/ v = ModeVal(m)
    \/ /\ v.t = "str" /\ Len(v.s) = Len(ModeValue(m))
       /\ \A i \in 1..Len(v.s) : v.s[i] \in {ModeValue(m)[i], Upper(ModeValue(m)[i])}

\* load_prompt was called on a path that holds a file
Loaded ==
    /\ call.op = "load_prompt" /\ call.path \in DOMAIN files
    /\ files[call.path].kind # "dir"

\* the file of the last load_prompt call is text; its text
LoadedText == Loaded /\ files[call.path].kind = "text"
Raw == files[call.path].text

\* the mode the claims expect the last load_prompt call to use: the one its
\* override names, else the one the last successful set_metadata was given
ExpectedMode(m) ==
    \/ NamesMode(call.meta, m)
    \/ call.meta = NoneVal /\ NamesMode(stored, m)

\* C6: a load with an override naming mode m gives what parsing the file
\* under m gives, whatever the process-wide mode; a load without override
\* gives what parsing under the mode of the last successful set_metadata
\* gives; get_metadata returns that mode
C6_OverrideThenDefault ==
    /\ \E m \in MetadataModes : NamesMode(stored, m)
    /\ Loaded =>
           \A m \in MetadataModes :
               ExpectedMode(m) =>
                   result = parse_file(call.path, files[call.path], m,
                                       _WARN_ON_IGNORED_META)
    /\ call.op = "get_metadata" =>
           \A m \in MetadataModes : NamesMode(stored, m) => result.val = ModeVal(m)

\* an override in capitals was followed although set_metadata had last been
\* given another mode as a string
C6_Witness ==
    /\ LoadedText /\ call.meta = StrVal(<<"S", "T", "R", "I", "C", "T">>)
    /\ stored = StrVal(<<"A", "l", "L", "o", "W">>)
    /\ result.kind = "raise" /\ result.exc = "InvalidMetadataError"
    /\ result.msg = "Missing required metadata fields"

\* the header of the loaded text: present, and it parses as a table
HeaderParses ==
    /\ LoadedText
    /\ _split_front_matter(Raw).kind = "ok"
    /\ _split_front_matter(Raw).header # NoneVal
    /\ toml_loads(_split_front_matter(Raw).header.s).kind = "ok"

HeaderData == toml_loads(_split_front_matter(Raw).header.s).data

Absent == {f \in RequiredFields : <<f>> \notin DOMAIN HeaderData}

\* the load failed with InvalidMetadataError with this message
InvalidMetadata(msg) ==
    result.kind = "raise" /\ result.exc = "InvalidMetadataError" /\ result.msg = msg

\* C7: in STRICT mode, with a header that parses and lacks a required key,
\* the load fails with InvalidMetadataError listing exactly the absent
\* required keys in sorted order and suggesting ALLOW, whatever the values of
\* the keys that are present
C7_MissingFields ==
    (HeaderParses /\ ExpectedMode("STRICT") /\ Absent # {}) =>
        /\ InvalidMetadata("Missing required metadata fields")
        /\ ListsSorted(result.names, {<<f>> : f \in Absent})
        /\ result.hint = "ALLOW"

\* a strict load of a header with two keys absent and the third empty
C7_Witness ==
    /\ HeaderParses /\ ExpectedMode("STRICT") /\ Cardinality(Absent) = 2
    /\ \E f \in RequiredFields \ Absent : HeaderData[<<f>>] = StrVal(<<>>)
    /\ InvalidMetadata("Missing required metadata fields")

\* the required fields whose value is a string that trims to nothing
EmptyText ==
    {f \in RequiredFields \ Absent :
        HeaderData[<<f>>].t = "str" /\ strip(HeaderData[<<f>>].s) = <<>>}

\* C8: in STRICT mode, with all three required keys in a header that parses,
\* the load fails with the empty-fields InvalidMetadataError exactly when
\* some required value is a string that trims to nothing, listing exactly
\* those fields in sorted order and suggesting ALLOW
C8_Original ==
    (HeaderParses /\ ExpectedMode("STRICT") /\ Absent = {}) =>
        /\ InvalidMetadata("Empty required metadata fields") <=> (EmptyText # {})
        /\ EmptyText # {} =>
               /\ ListsSorted(result.names, {<<f>> : f \in EmptyText})
               /\ result.hint = "ALLOW"

\* C9: in STRICT mode, from the override or from the process-wide mode, a
\* text that does not start with the delimiter fails with
\* MissingMetadataError
C9_NoHeaderStrict ==
    (LoadedText /\ ExpectedMode("STRICT") /\ ~StartsWith(Raw, DELIM)) =>
        result.kind = "raise" /\ result.exc = "MissingMetadataError"

\* a load without override, under a process-wide STRICT, of a text with a
\* blank before its delimiter
C9_Witness ==
    /\ LoadedText /\ call.meta = NoneVal /\ NamesMode(stored, "STRICT")
    /\ Len(Raw) > 1 /\ Raw[1] = " " /\ StartsWith(Tail(Raw), DELIM)
    /\ result.kind = "raise" /\ result.exc = "MissingMetadataError"

\* the body of the loaded text holds more than white space
BodyNotBlank == strip(_split_front_matter(Raw).body) # <<>>

\* the value of a header field as the metadata record holds it: a string
\* as it is, a date or a string spelling a date as that date
SameValue(f, v, kept) ==
    IF f = "created" /\ v.t = "str" THEN kept.t = "date" /\ <<kept.d>> = v.s
    ELSE kept = v

\* C10: in ALLOW mode a text with a header that parses and a body that is
\* not blank loads; every field of the record that the header gives holds
\* the header's value (an empty string stays an empty string), and every
\* field but the title that the header does not give is None
C10_Original ==
    (HeaderParses /\ ExpectedMode("ALLOW") /\ BodyNotBlank) =>
        /\ result.kind = "ok"
        /\ \A f \in MetaFields :
               IF <<f>> \in DOMAIN HeaderData
               THEN SameValue(f, HeaderData[<<f>>], result.meta[f])
               ELSE f # "title" => result.meta[f] = NoneVal

\* the text holds more than white space
NotBlank(s) == strip(s) # <<>>

\* the lines that hold more than blanks
Inked(lines) == {i \in 1..Len(lines) : \E k \in 1..Len(lines[i]) : lines[i][k] # " "}

\* out is text with the lines of blanks emptied and the same k leading
\* blanks, as many as the least indented of the other lines has, taken off
\* every other line
Dedented(text, out) ==
    LET lines == SplitLines(text)
        outs == SplitLines(out)
    IN  /\ Len(outs) = Len(lines)
        /\ \A i \in (1..Len(lines)) \ Inked(lines) : outs[i] = <<>>
        /\ \E k \in 0..Len(text) :
               /\ \A i \in Inked(lines) :
                      /\ Len(lines[i]) > k
                      /\ \A j \in 1..k : lines[i][j] = " "
                      /\ outs[i] = SubSeq(lines[i], k + 1, Len(lines[i]))
               /\ Inked(lines) # {} => \E i \in Inked(lines) : lines[i][k + 1] # " "

\* the record with the title only: the file name without its suffix
TitleOnly(path) ==
    [f \in MetaFields |->
        IF f = "title" THEN StrVal(SubSeq(path, 1, Len(path) - 2)) ELSE NoneVal]

BaseName(path) == SubSeq(path, 1, Len(path) - 2)

\* the last load read the header: it did not run in IGNORE mode, and the
\* text has a header that parses
HeaderRead == ~ExpectedMode("IGNORE") /\ HeaderParses

\* the header was read and gives the field f
Supplies(f) == HeaderRead /\ <<f>> \in DOMAIN HeaderData

EmptyBody == result.kind = "raise" /\ result.msg = "Prompt body is empty"

\* the loaded text starts with a header, closed by a second delimiter
HasHeader ==
    /\ LoadedText
    /\ _split_front_matter(Raw).kind = "ok"
    /\ _split_front_matter(Raw).header # NoneVal

\* the loaded text is blank, or has a header and is blank after it
BlankBody == LoadedText /\ (~NotBlank(Raw) \/ (HasHeader /\ ~BodyNotBlank))

\* C13 as stated: in every mode a text that is blank, or blank after its
\* header, fails with 'Prompt body is empty'; no load returns a blank body
C13_Original ==
    /\ (Loaded /\ result.kind = "ok") => NotBlank(result.prompt)
    /\ (BlankBody /\ \E m \in MetadataModes : ExpectedMode(m)) => EmptyBody

\* C13 amended: no load returns a blank body. A blank text fails in every
\* mode: with 'Prompt body is empty' in ALLOW and IGNORE, with
\* MissingMetadataError in STRICT. A text that is blank after its header
\* fails in STRICT and ALLOW, with 'Prompt body is empty' unless the header
\* is rejected first with InvalidMetadataError, and always so in ALLOW when
\* the header gives no field; in IGNORE it loads, the header being its body
C13_BlankBodyRejected ==
    /\ (Loaded /\ result.kind = "ok") => NotBlank(result.prompt)
    /\ (LoadedText /\ ~NotBlank(Raw)) =>
           /\ ExpectedMode("ALLOW") \/ ExpectedMode("IGNORE") => EmptyBody
           /\ ExpectedMode("STRICT") =>
                  result.kind = "raise" /\ result.exc = "MissingMetadataError"
    /\ (HasHeader /\ ~BodyNotBlank) =>
           /\ ExpectedMode("STRICT") \/ ExpectedMode("ALLOW") =>
                  \/ EmptyBody
                  \/ result.kind = "raise" /\ result.exc = "InvalidMetadataError"
           /\ (ExpectedMode("ALLOW") /\ HeaderParses /\ DOMAIN HeaderData = {}) =>
                  EmptyBody
           /\ (ExpectedMode("STRICT") /\ HeaderParses /\ Absent = {}
                   /\ \A f \in DOMAIN HeaderData :
                          /\ HeaderData[f].t = "str"
                          /\ f # <<"created">>
                          /\ strip(HeaderData[f].s) # <<>>) => EmptyBody
           /\ (ExpectedMode("IGNORE") /\ NotBlank(Raw)) => result.kind = "ok"

\* a STRICT load of a text with a full header and a body of white space
\* failed with 'Prompt body is empty'
C13_Witness ==
    /\ HasHeader /\ HeaderParses /\ Absent = {} /\ ExpectedMode("STRICT")
    /\ _split_front_matter(Raw).body # <<>> /\ ~BodyNotBlank
    /\ EmptyBody


\* three dashes stand in the text at the 1-based position i
DashesAt(text, i) ==
    i + 2 <= Len(text) /\ text[i] = "-" /\ text[i + 1] = "-" /\ text[i + 2] = "-"

\* the positions after the opening delimiter where a delimiter stands
Closings(text) == {i \in 4..Len(text) : DashesAt(text, i)}

\* C14: _split_front_matter on the text of the loaded file has three
\* outcomes, decided by the start of the text: without the delimiter at its
\* very start, (None, the text unchanged) and no error; with it and no
\* further delimiter from index 3 on, MalformedHeaderError; else a header
\* and a body
C14_ThreeOutcomes ==
    LoadedText =>
        LET r == _split_front_matter(Raw)
        IN  /\ ~DashesAt(Raw, 1) =>
                   r = [kind |-> "ok", header |-> NoneVal, body |-> Raw]
            /\ (DashesAt(Raw, 1) /\ Closings(Raw) = {}) =>
                   r.kind = "raise" /\ r.exc = "MalformedHeaderError"
            /\ (DashesAt(Raw, 1) /\ Closings(Raw) # {}) =>
                   /\ r.kind = "ok" /\ r.header # NoneVal
                   /\ DOMAIN r = {"kind", "header", "body"}

\* a load that read the header split a text of four dashes, whose fourth
\* dash closes nothing, and failed
C14_Witness ==
    /\ LoadedText /\ ~ExpectedMode("IGNORE") /\ \E m \in MetadataModes : ExpectedMode(m)
    /\ DashesAt(Raw, 1) /\ Len(Raw) > 3 /\ Raw[4] = "-" /\ Closings(Raw) = {}
    /\ _split_front_matter(Raw).kind = "raise"
    /\ result.kind = "raise"


\* the first position after the opening delimiter where a delimiter stands
Closing(text) == CHOOSE i \in Closings(text) : \A j \in Closings(text) : i <= j

\* inner is outer without the white space at its two ends
Trimmed(outer, inner) ==
    /\ inner # <<>> => inner[1] \notin Whitespace /\ inner[Len(inner)] \notin Whitespace
    /\ \E i \in 1..(Len(outer) + 1) :
           /\ i + Len(inner) - 1 <= Len(outer)
           /\ inner = SubSeq(outer, i, i + Len(inner) - 1)
           /\ \A k \in 1..Len(outer) :
                  (k < i \/ k > i + Len(inner) - 1) => outer[k] \in Whitespace

\* rest is whole without its leading newlines
NewlinesCut(whole, rest) ==
    /\ rest # <<>> => rest[1] # "\n"
    /\ Len(rest) <= Len(whole)
    /\ rest = From(whole, Len(whole) - Len(rest) + 1)
    /\ \A k \in 1..(Len(whole) - Len(rest)) : whole[k] = "\n"

\* C15: when the text starts with the delimiter and a second one follows,
\* the header of _split_front_matter is the text between the two with the
\* white space at its ends trimmed, and the body is the text after the
\* second delimiter without its leading newlines only: blanks that lead it
\* and later delimiters stay in the body as they are
C15_HeaderAndBody ==
    (LoadedText /\ DashesAt(Raw, 1) /\ Closings(Raw) # {}) =>
        LET r == _split_front_matter(Raw)
            c == Closing(Raw)
        IN  /\ r.kind = "ok" /\ r.header.t = "str"
            /\ Trimmed(SubSeq(Raw, 4, c - 1), r.header.s)
            /\ NewlinesCut(From(Raw, c + 3), r.body)

\* a load that read the header split a text whose body, after the newline
\* that ends the closing line, holds a further delimiter, and returned it
C15_Witness ==
    /\ LoadedText /\ ExpectedMode("ALLOW")
    /\ DashesAt(Raw, 1) /\ Cardinality(Closings(Raw)) > 1
    /\ Raw[Closing(Raw) + 3] = "\n"
    /\ Contains(_split_front_matter(Raw).body, DELIM)
    /\ result.kind = "ok"
    /\ Contains(result.prompt, DELIM)


\* the loaded text has a header that does not parse as a table
HeaderInvalid ==
    HasHeader /\ toml_loads(_split_front_matter(Raw).header.s).kind = "error"

\* C16: a text whose header does not parse as a key/value table fails in
\* ALLOW and in STRICT with InvalidMetadataError suggesting IGNORE, and no
\* Prompt; the same text loads in IGNORE mode
C16_InvalidHeader ==
    HeaderInvalid =>
        /\ ExpectedMode("ALLOW") \/ ExpectedMode("STRICT") =>
               /\ InvalidMetadata("Invalid TOML in front matter")
               /\ result.hint = "IGNORE"
        /\ ExpectedMode("IGNORE") => result.kind = "ok"
        /\ parse_file(call.path, files[call.path], "IGNORE", FALSE).kind = "ok"

\* an ALLOW load of a text with a line in its header that is no key/value
\* pair failed with the error that suggests IGNORE
C16_Witness ==
    /\ HeaderInvalid /\ ExpectedMode("ALLOW")
    /\ \E l \in 1..Len(SplitLines(_split_front_matter(Raw).header.s)) :
           ~Contains(SplitLines(_split_front_matter(Raw).header.s)[l], <<"=">>)
    /\ InvalidMetadata("Invalid TOML in front matter") /\ result.hint = "IGNORE"


\* C17: in ALLOW and STRICT a text that starts with the delimiter and has
\* no closing one fails with InvalidMetadataError, whose message holds the
\* missing-closing-delimiter text and suggests MetadataMode.IGNORE; the
\* MalformedHeaderError of the splitter is its cause, not what is raised
C17_MissingClosing ==
    (LoadedText /\ DashesAt(Raw, 1) /\ Closings(Raw) = {}
         /\ (ExpectedMode("ALLOW") \/ ExpectedMode("STRICT"))) =>
        /\ InvalidMetadata("Missing closing delimiter")
        /\ result.hint = "IGNORE"
        /\ result.cause = "MalformedHeaderError"

\* a STRICT load of a text with an opening delimiter, a full header and a
\* body but no closing delimiter failed with the wrapped error
C17_Witness ==
    /\ LoadedText /\ ExpectedMode("STRICT")
    /\ DashesAt(Raw, 1) /\ Closings(Raw) = {} /\ Contains(Raw, <<"title">>)
    /\ result.kind = "raise" /\ result.exc = "InvalidMetadataError"
    /\ result.cause = "MalformedHeaderError"


\* the path of the last load_prompt call holds no regular file
NoFile ==
    /\ call.op = "load_prompt"
    /\ call.path \notin DOMAIN files \/ files[call.path].kind = "dir"

\* the override of the last load_prompt call names no mode
BadModeName ==
    /\ call.op = "load_prompt" /\ call.meta # NoneVal
    /\ \A m \in MetadataModes : ~NamesMode(call.meta, m)

\* C18: load_prompt first checks that the path holds a regular file and
\* fails with FileMissingError, whatever the override (a name of no mode
\* included: the mode is not resolved) and whatever the path holds (a
\* directory is not read); then, in every mode, bytes that do not decode
\* fail with TextPromptsError: for a missing or undecodable file the error
\* is the same in STRICT, ALLOW and IGNORE
C18_CheckOrder ==
    /\ NoFile =>
           result = [kind |-> "raise", exc |-> "FileMissingError",
                     msg |-> "File not found", names |-> <<>>, hint |-> "",
                     warned |-> FALSE]
    /\ (Loaded /\ files[call.path].kind = "binary"
            /\ \E m \in MetadataModes : ExpectedMode(m)) =>
           /\ result.kind = "raise" /\ result.exc = "TextPromptsError"
           /\ result.msg = "Cannot decode as UTF-8"
           /\ result.cause = "UnicodeDecodeError"

\* a load of a directory under an override that names no mode failed with
\* FileMissingError
C18_Witness ==
    /\ NoFile /\ call.path \in DOMAIN files /\ BadModeName
    /\ result.kind = "raise" /\ result.exc = "FileMissingError"


\* the load of the last command-line run fails
MainLoadFails ==
    /\ call.op = "main"
    /\ load_prompt(call.file, StrVal(<<"i", "g", "n", "o", "r", "e">>), files,
                   _METADATA_MODE, _WARN_ON_IGNORED_META).kind = "raise"

\* C19: every failure of load_prompt raises TextPromptsError or a subclass
\* of it, and every command-line run whose load fails prints "Error: ..." on
\* stderr and exits with code 1
C19_Original ==
    /\ (call.op = "load_prompt" /\ result.kind = "raise") =>
           result.exc \in TextPromptsErrors
    /\ MainLoadFails => result.code = 1 /\ result.stderr = "Error"


\* a Prompt was saved
SavedPrompt ==
    call.op = "save_prompt" /\ call.content.t = "Prompt" /\ result.kind = "ok"

\* the metadata of the saved Prompt
SavedMeta == IF call.content.meta = NoneVal THEN EmptyMeta ELSE call.content.meta

\* the written file reloaded in ALLOW mode
Reloaded ==
    load_prompt(call.path, ModeVal("ALLOW"), files, _METADATA_MODE,
                _WARN_ON_IGNORED_META)

\* C20: a Prompt that was saved reloads in ALLOW mode, with the title, the
\* description and the version it had (the empty string where it had None),
\* and the author and the created date it had
C20_Original ==
    SavedPrompt =>
        /\ Reloaded.kind = "ok"
        /\ \A f \in RequiredFields :
               Reloaded.meta[f] = IF SavedMeta[f] = NoneVal THEN StrVal(<<>>)
                                  ELSE SavedMeta[f]
        /\ Reloaded.meta.author = SavedMeta.author
        /\ Reloaded.meta.created = SavedMeta.created


----------------------------------------------------------------------------
(* Further claims about PromptString.format, checked under SpecFormat *)

\* C22: a validated format that passes validation gives what the standard
\* brace substitution gives on the text of the template itself, so a
\* template without braces comes back as it is, with the white space at
\* its two ends
C22_Original ==
    (Validated /\ ~RaisedMissing) =>
        /\ result = str_format(value, args, kwargs)
        /\ ~HasBrace(value) => result.kind = "ok" /\ result.val = value


\* C23: the placeholder set is computed at construction and frozen: no
\* format call, validated or partial, returning or raising, changes the
\* text of the template or its placeholder set, which stays the set that
\* construction computed from the text
C23_Frozen ==
    [][/\ value' = value
       /\ placeholders' = placeholders
       /\ placeholders' = extract_placeholders(value')]_vars

\* a validated format call on a template with two placeholders raised, and
\* the set is still the one of the text
C23_Witness ==
    /\ Validated /\ result.kind = "raise"
    /\ Cardinality(placeholders) = 2
    /\ placeholders = extract_placeholders(value)


\* a format call was made
Formatted == result.kind \in {"ok", "raise"}

\* what the call gives without skip_validation (the order of the set plays
\* no part in it)
ValidatedResult == format(value, placeholders, <<>>, args, kwargs, FALSE)

\* what the call gives with skip_validation=True when the set is iterated
\* in the order given
PartialResult(order) == format(value, placeholders, order, args, kwargs, TRUE)

\* C26: when the arguments supply every placeholder and the call without
\* skip_validation returns a string, the call with skip_validation=True
\* returns the same string, whatever the order of the set
C26_Original ==
    (Formatted /\ Unsupplied = {} /\ ValidatedResult.kind = "ok") =>
        \A order \in Orders(placeholders) : PartialResult(order) = ValidatedResult


\* C27: what a partial format call returns does not depend on the order in
\* which the placeholder set is iterated
C27_Original ==
    Partial => \A order \in Orders(placeholders) : PartialResult(order) = result


----------------------------------------------------------------------------
(* Further claims about the metadata mode and the loader, checked under     *)
(* SpecLoad                                                                 *)

\* the last load gave what a load with the warning flag disabled gives,
\* the warning apart
SameAsUnwarned ==
    [result EXCEPT !.warned = FALSE]
        = parse_file(call.path, files[call.path], "IGNORE", FALSE)

\* C24 as stated: in IGNORE mode, with the warning flag enabled, a text that
\* starts with the delimiter is loaded with a warning, and the Prompt is the
\* one a load with the flag disabled returns
C24_Original ==
    (LoadedText /\ ExpectedMode("IGNORE") /\ DashesAt(Raw, 1)
         /\ _WARN_ON_IGNORED_META) =>
        /\ result.kind = "ok" /\ result.warned
        /\ SameAsUnwarned

\* C24 amended: in IGNORE mode, with the warning flag enabled, a text that
\* starts with the delimiter and holds a second delimiter after it is loaded
\* with a warning, and the Prompt is the one a load with the flag disabled
\* returns
C24_WarnedSamePrompt ==
    (LoadedText /\ ExpectedMode("IGNORE") /\ DashesAt(Raw, 1) /\ Closings(Raw) # {}
         /\ _WARN_ON_IGNORED_META) =>
        /\ result.kind = "ok" /\ result.warned
        /\ SameAsUnwarned

\* an IGNORE load, by the process-wide mode, of a text with a full header
\* was warned about
C24_Witness ==
    /\ LoadedText /\ ExpectedMode("IGNORE") /\ HeaderParses /\ Absent = {}
    /\ _WARN_ON_IGNORED_META /\ call.meta = NoneVal
    /\ result.kind = "ok" /\ result.warned /\ SameAsUnwarned


\* the module config has just been imported, under the setting call.env of
\* TEXTPROMPTS_METADATA_MODE
Imported == call.op = "import" /\ "env" \in DOMAIN call

\* C25: at import the process-wide mode is the one the setting names, in
\* any letter case; IGNORE when the setting is unset or empty; and IGNORE,
\* without an error, when the setting names no mode
C25_EnvSeed ==
    Imported =>
        /\ \A m \in MetadataModes :
               (call.env # NoneVal /\ NamesMode(call.env, m)) => _METADATA_MODE = m
        /\ (call.env = NoneVal
                \/ \A m \in MetadataModes : ~NamesMode(call.env, m)) =>
               _METADATA_MODE = "IGNORE"
        /\ result = NoResult

\* the import under the setting "AlLoW" made ALLOW the process-wide mode
C25_Witness ==
    /\ Imported /\ call.env = StrVal(<<"A", "l", "L", "o", "W">>)
    /\ _METADATA_MODE = "ALLOW"


\* v is neither a MetadataMode nor a string that names a mode
NoMode(v) == \A m \in MetadataModes : ~NamesMode(v, m)

\* C29: a set_metadata call with a string that names no mode, or with a
\* value that is neither a string nor a MetadataMode, raises ValueError and
\* leaves the process-wide mode as it was; no set_metadata call changes the
\* warning flag; skip_metadata sets the flag to the negation of
\* skip_warning and the mode to IGNORE, and no other call writes the flag
C29_SetMetadataFrame ==
    [][/\ call'.op = "set_metadata" =>
              /\ _WARN_ON_IGNORED_META' = _WARN_ON_IGNORED_META
              /\ NoMode(call'.mode) =>
                     /\ result'.kind = "raise" /\ result'.exc = "ValueError"
                     /\ _METADATA_MODE' = _METADATA_MODE
       /\ call'.op = "skip_metadata" =>
              /\ _WARN_ON_IGNORED_META' = ~call'.skip_warning
              /\ _METADATA_MODE' = "IGNORE"
       /\ call'.op # "skip_metadata" =>
              _WARN_ON_IGNORED_META' = _WARN_ON_IGNORED_META]_vars

\* set_metadata was given a string that names no mode, after skip_metadata
\* had disabled the warning and a further call had set a mode other than
\* IGNORE: it raised, and the flag and the mode are as they were
C29_Witness ==
    /\ call.op = "set_metadata" /\ call.mode.t = "str" /\ NoMode(call.mode)
    /\ result.kind = "raise" /\ result.exc = "ValueError"
    /\ ~_WARN_ON_IGNORED_META
    /\ _METADATA_MODE = "STRICT"


\* the file of the last load parsed in the mode m, without warnings
ParsedIn(m) == parse_file(call.path, files[call.path], m, FALSE)

\* C30: a file that loads in STRICT mode loads in ALLOW mode with the same
\* path, metadata and body, and a file that fails in ALLOW mode fails in
\* STRICT mode
C30_StrictWithinAllow ==
    Loaded =>
        /\ (ExpectedMode("STRICT") /\ result.kind = "ok") => ParsedIn("ALLOW") = result
        /\ (ExpectedMode("ALLOW") /\ result.kind = "raise") =>
               ParsedIn("STRICT").kind = "raise"
        /\ ParsedIn("STRICT").kind = "ok" => ParsedIn("ALLOW") = ParsedIn("STRICT")

\* a STRICT load of a text with the three required fields and an author
\* returned what an ALLOW load returns
C30_Witness ==
    /\ HeaderParses /\ ExpectedMode("STRICT") /\ Absent = {}
    /\ <<"author">> \in DOMAIN HeaderData
    /\ result.kind = "ok" /\ result.meta.author # NoneVal
    /\ ParsedIn("ALLOW") = result


----------------------------------------------------------------------------
(* Claims about load_prompts, checked under SpecBatch *)

\* the number of files that the path arguments of the batch expand to
RECURSIVE Expanded(_)
Expanded(paths) ==
    IF paths = <<>> THEN 0
    ELSE (IF is_dir(paths[1], files) THEN Cardinality(glob(paths[1], files)) ELSE 1)
            + Expanded(Tail(paths))

\* load_prompts has returned or raised
BatchOver == call.op = "load_prompts" /\ result # Running

\* C21 as stated: for every max_files N other than None a batch never loads
\* more than N files, and when its arguments expand to more than N files it
\* raises and returns no list, with TextPromptsError "Exceeded max_files
\* limit" once N files are loaded; with max_files=None the limit error is
\* never raised
C21_Original ==
    call.op = "load_prompts" =>
        /\ call.max_files # NoneVal =>
            /\ file_count <= call.max_files.n
            /\ (BatchOver /\ Expanded(call.paths) > call.max_files.n) =>
                /\ result.kind = "raise"
                /\ file_count = call.max_files.n =>
                    /\ result.exc = "TextPromptsError"
                    /\ result.msg = "Exceeded max_files limit"
        /\ (call.max_files = NoneVal /\ BatchOver /\ result.kind = "raise") =>
            result.msg # "Exceeded max_files limit"


\* the Prompt that parsing the file at path under the mode m gives
ParsedUnder(path, m) == parse_file(path, files[path], m, _WARN_ON_IGNORED_META)

\* C28 as stated: with set_metadata called from another thread at any point,
\* the files that a load_prompts call without a meta argument has loaded are
\* all parsed under one and the same metadata mode
C28_Original ==
    (call.op = "load_prompts" /\ call.meta = NoneVal) =>
        \E m \in MetadataModes :
            \A i \in DOMAIN collected : collected[i] = ParsedUnder(collected[i].path, m)

====
